---- MODULE Spec2Model ----
(***************************************************************************)
(* State-machine model of the synctool sync engine:                        *)
(*   core/comparator.py   (compare_trees and its helpers)                  *)
(*   core/file_ops.py     (atomic_copy, safe_delete)                       *)
(*   core/sync_engine.py  (SyncEngine.run and the plan executor)           *)
(*   core/parallel_sync.py (ParallelSyncManager)                           *)
(*                                                                         *)
(* The specifications share the variables:                                 *)
(*   SpecPlan     compare_trees applied to bounded snapshots/known states  *)
(*   SpecKnown    SpecPlan with known states of present files only         *)
(*   SpecJob      one SyncEngine.run, atomic_copy unrolled chunk by chunk  *)
(*   SpecScan     one-way runs whose scans can meet listing and stat errors*)
(*   SpecRestart  one-way runs on a scheduler whose start() is called again*)
(*   SpecSources  the runs of one job with two source roots, one after the *)
(*                other                                                    *)
(*   SpecDrives   the bidirectional runs of two drives on one source root  *)
(*   SpecWalk     one subtree worker of scan_tree on directories whose     *)
(*                links may form cycles; SpecWalkLive with fair scheduling *)
(*   SpecEvents   the runs of one job with the event queue, the thread     *)
(*                that drains it and the counters of the progress events   *)
(*   SpecJobLive  runs followed to their end under fair scheduling         *)
(*   SpecManager  ParallelSyncManager with its worker and monitor threads  *)
(*   SpecDelete   safe_delete on a chain of directories                    *)
(***************************************************************************)
EXTENDS Integers, Sequences, FiniteSets, TLC

\* ------------------------------------------------------------------ bounds
MaxPaths == 2
MaxMtime == 2
MaxClock == 1
MaxDirs == 2

\* utils/config.py
COPY_RETRY_COUNT == 3
MAX_DRIVES == 3

\* ------------------------------------------------------------- data model
Paths == 1..MaxPaths
Mtimes == 1..MaxMtime
Clock == 1..MaxClock

\* File contents are sequences of chunks (one element = one COPY_CHUNK_SIZE
\* block); the size in bytes is the number of chunks.
Contents == {<<"a">>, <<"b">>, <<"a", "b">>}
Sizes == {Len(c) : c \in Contents}

File == [data : Contents, mtime : Mtimes]
FixedFile == [data |-> <<"a">>, mtime |-> 1]

\* A file name below a root.  stamps lists the ".conflict_<stamp>" suffixes
\* inserted before the extension, synctmp counts the ".synctmp" suffixes.
Plain(p) == [rel |-> p, stamps |-> <<>>, synctmp |-> 0]
PlainNames == {Plain(p) : p \in Paths}

Roots == {"src", "dst"}
Abs(root, name) == [root |-> root, name |-> name]

\* db/models.py FileStat (rel_path is the key of the snapshot)
FileStat(f) == [size_bytes |-> Len(f.data), mtime_ns |-> f.mtime]
\* db/models.py FileState, as stored under (source_path, drive_serial, rel_path)
FileState == [size_bytes : Sizes, mtime_ns : Mtimes]

SOURCE == "SOURCE"
DRIVE == "DRIVE"
Serials == {SOURCE, DRIVE}

Directions == {"source_to_dest", "dest_to_source", "bidirectional"}

\* ------------------------------------------------------------- variables
VARIABLES
    fs,                 \* [Roots -> [names present -> File]]: the two trees on disk
    store,              \* [Serials -> [names -> FileState]]: file_states table
    direction, use_hash, delete_extraneous,   \* the job's options
    makedirs_ok,        \* whether os.makedirs succeeds below the destination root
    plan,               \* the SyncPlan last returned by compare_trees
    ppc,                \* "input" | "planned": position of the SpecPlan driver
    \* --- SyncEngine (one run)
    cancel_event,       \* the shared threading.Event
    pc,                 \* position of the thread inside SyncEngine.run
    snap_src, snap_dst, \* src_stats and dst_stats of _build_plan
    idx,                \* 1-based position in the list _execute_plan is iterating
    attempt,            \* atomic_copy's loop variable
    history,            \* the SyncHistory row of this run
    history_entries,    \* _execute_plan's local list
    db_entries,         \* rows written by add_file_entries
    complete_events,    \* statuses of the SyncCompleteEvents put on the event queue
    \* --- history variables the properties read
    fs0,                \* the trees when the run started
    pre,                \* atomic_copy's arguments and what the final path held on entry
    copy_result,        \* how the last atomic_copy ended
    signalled,          \* cancel() was called while atomic_copy was running
    \* --- ParallelSyncManager
    jobs,               \* start()'s local jobs: its argument, then the list it keeps
    mpc,                \* "idle" | "started" | "returned": position of start()
    workers,            \* one record per _run_job thread of the executor
    futures,            \* self._futures: indexes into workers
    executor,           \* self._executor: "none" | "live"
    monitor,            \* the sync-monitor thread: 0 = not started, k = waiting for
                        \* futures[k], Len(futures) + 1 = about to finish, -1 = ended
    callbacks,          \* how often on_all_done was invoked
    \* --- the directories of one sync root, for safe_delete
    tree_dirs,          \* levels of the directories that exist: 0 is the sync root,
                        \* k > 0 the k-th directory nested below it, k < 0 above it
    tree_files,         \* <<level, n>>: file n exists in the directory of that level
    siblings,           \* levels above the root holding an entry beside the path to the root
    pending,            \* files of plan.to_delete not yet handed to safe_delete
    \* --- one _scan_subdir worker of scan_tree
    links,              \* [real directory -> the real directories its entries
                        \* resolve to]: subdirectories and symbolic links
    wpc,                \* "idle" | "start" | "walking" | "ended"
    stack,              \* the _walk calls in progress, innermost last
    visited,            \* the worker's visited set
    expanded,           \* how often os.scandir listed each real directory
    \* --- utils/events.py and the counters of _execute_plan
    event_queue,        \* _event_queue: the events put and not yet drained
    received,           \* the events drain() has handed to the UI thread
    emitted,            \* the events the run's worker has put, in the order of
                        \* its puts; Untraced where events are not followed
    done_files,         \* _execute_plan's local done_files
    done_bytes          \* _execute_plan's local done_bytes

planVars == <<fs, store, direction, use_hash, delete_extraneous, makedirs_ok, plan, ppc>>
optVars == <<direction, use_hash, delete_extraneous, makedirs_ok>>
engineLocal == <<pc, snap_src, snap_dst, idx, attempt, history, history_entries,
                 db_entries, complete_events, fs0, pre, copy_result, signalled>>
engineVars == <<cancel_event, engineLocal>>
managerVars == <<jobs, mpc, workers, futures, executor, monitor, callbacks>>
walkVars == <<links, wpc, stack, visited, expanded>>
diskVars == <<tree_dirs, tree_files, siblings, pending, walkVars>>
eventVars == <<event_queue, received, emitted, done_files, done_bytes>>
vars == <<planVars, engineVars, managerVars, diskVars, eventVars>>

\* ----------------------------------------------------------- scanner.py
\* scan_tree: a complete walk returns one FileStat per file present.
scan_tree(tree) == [n \in DOMAIN tree |-> FileStat(tree[n])]

\* scan_tree on a tree that answers with errors: an entry whose stat raises
\* is left out, a directory whose listing raises gives none of its entries,
\* a root that cannot be listed gives the empty snapshot.
scan_outcomes(tree) ==
    {[n \in seen |-> FileStat(tree[n])] : seen \in SUBSET DOMAIN tree}

\* The real directories below one top-level subdirectory.
Dirs == 1..MaxDirs

\* A _walk that takes no directory for visited.
already_visited_never(real, seen) == FALSE

\* _walk: if real in visited: return
already_visited(real, seen) == real \in seen

\* _walk lists current: visited.add(real), os.scandir(current).  The entries
\* that are files only add to result.
Expand(d) ==
    /\ visited' = visited \cup {d}
    /\ expanded' = [expanded EXCEPT ![d] = @ + 1]
    /\ stack' = Append(stack, [dir |-> d, todo |-> links[d]])

Return == stack' = SubSeq(stack, 1, Len(stack) - 1)

\* _scan_subdir: visited = set(), _walk(root, subdir, ...) with its check of
\* cancel_check and of visited.
WalkStart ==
    /\ wpc = "start"
    /\ \E d \in Dirs :
          IF cancel_event \/ already_visited(d, visited)
          THEN wpc' = "ended" /\ UNCHANGED <<stack, visited, expanded>>
          ELSE wpc' = "walking" /\ Expand(d)
    /\ UNCHANGED <<links, tree_dirs, tree_files, siblings, pending>>
    /\ UNCHANGED <<planVars, engineVars, managerVars, eventVars>>

\* _walk, one turn of for entry in it, for an entry that is a directory:
\* cancel_check() answering True returns from the call, otherwise _walk is
\* called on the entry, where a real path in visited returns at once.  The
\* nesting of the calls is followed as far as MaxDirs + 1.
WalkEntry ==
    /\ wpc = "walking"
    /\ stack # <<>>
    /\ stack[Len(stack)].todo # {}
    /\ IF cancel_event
       THEN Return /\ UNCHANGED <<visited, expanded>>
       ELSE \E e \in stack[Len(stack)].todo :
               LET rest == [stack EXCEPT ![Len(stack)].todo = @ \ {e}]
               IN IF already_visited(e, visited)
                  THEN stack' = rest /\ UNCHANGED <<visited, expanded>>
                  ELSE /\ Len(stack) <= MaxDirs
                       /\ visited' = visited \cup {e}
                       /\ expanded' = [expanded EXCEPT ![e] = @ + 1]
                       /\ stack' = Append(rest, [dir |-> e, todo |-> links[e]])
    /\ UNCHANGED <<links, wpc, tree_dirs, tree_files, siblings, pending>>
    /\ UNCHANGED <<planVars, engineVars, managerVars, eventVars>>

\* _walk: the listing is exhausted, or os.scandir raises a PermissionError or
\* an OSError, which is swallowed: the call returns.
WalkReturn ==
    /\ wpc = "walking"
    /\ stack # <<>>
    /\ Return
    /\ UNCHANGED <<links, wpc, visited, expanded, tree_dirs, tree_files, siblings, pending>>
    /\ UNCHANGED <<planVars, engineVars, managerVars, eventVars>>

\* _scan_subdir: the outermost _walk has returned, return sub.
WalkEnd ==
    /\ wpc = "walking"
    /\ stack = <<>>
    /\ wpc' = "ended"
    /\ UNCHANGED <<links, stack, visited, expanded, tree_dirs, tree_files, siblings, pending>>
    /\ UNCHANGED <<planVars, engineVars, managerVars, eventVars>>

\* --------------------------------------------------------- comparator.py
Exists(abs) == abs.name \in DOMAIN fs[abs.root]

\* _compute_sha256: digest of the bytes on disk, "" when the file cannot be
\* opened.  The digest is modelled by the content itself (no collisions).
compute_sha256(abs) == IF Exists(abs) THEN fs[abs.root][abs.name].data ELSE <<>>

\* _files_differ comparing sizes only.
files_differ_size_only(src_abs, dst_abs, src_stat, dst_stat, hash) ==
    src_stat.size_bytes # dst_stat.size_bytes

files_differ(src_abs, dst_abs, src_stat, dst_stat, hash) ==
    IF src_stat.size_bytes # dst_stat.size_bytes THEN TRUE
    ELSE IF src_stat.mtime_ns # dst_stat.mtime_ns
         THEN IF hash THEN compute_sha256(src_abs) # compute_sha256(dst_abs)
              ELSE TRUE
         ELSE FALSE

\* _conflict_dst_path handing back the path it was given.
conflict_dst_path_same(dst_abs, now) == dst_abs

\* _conflict_dst_path: insert ".conflict_<stamp>" before the extension.
conflict_dst_path(dst_abs, now) ==
    [dst_abs EXCEPT !.name.stamps = Append(@, now)]

SyncPlan == [to_copy |-> <<>>, to_delete |-> <<>>, conflicts |-> <<>>, to_skip |-> <<>>]

Item(from_abs, to_abs, rel, size) ==
    [src |-> from_abs, dst |-> to_abs, rel |-> rel, size |-> size]

\* The first loop of _plan_one_way with the else of the differ test lost.
one_way_step_noelse(from_root, to_root, from_stats, to_stats, hash, p, rel) ==
    LET from_abs == Abs(from_root, rel)
        to_abs == Abs(to_root, rel)
        it == Item(from_abs, to_abs, rel, from_stats[rel].size_bytes)
    IN IF rel \notin DOMAIN to_stats
       THEN [p EXCEPT !.to_copy = Append(@, it)]
       ELSE IF files_differ(from_abs, to_abs, from_stats[rel], to_stats[rel], hash)
            THEN [p EXCEPT !.to_copy = Append(@, it), !.to_skip = Append(@, it)]
            ELSE [p EXCEPT !.to_skip = Append(@, it)]

\* One iteration of the first loop of _plan_one_way.
one_way_step(from_root, to_root, from_stats, to_stats, hash, p, rel) ==
    LET from_abs == Abs(from_root, rel)
        to_abs == Abs(to_root, rel)
        it == Item(from_abs, to_abs, rel, from_stats[rel].size_bytes)
    IN IF rel \notin DOMAIN to_stats
       THEN [p EXCEPT !.to_copy = Append(@, it)]
       ELSE IF files_differ(from_abs, to_abs, from_stats[rel], to_stats[rel], hash)
            THEN [p EXCEPT !.to_copy = Append(@, it)]
            ELSE [p EXCEPT !.to_skip = Append(@, it)]

\* The delete loop of _plan_one_way without its membership test.
one_way_delete_all(from_root, to_root, from_stats, to_stats, p, rel) ==
    [p EXCEPT !.to_delete = Append(@, Abs(to_root, rel))]

\* One iteration of the delete loop of _plan_one_way.
one_way_delete(from_root, to_root, from_stats, to_stats, p, rel) ==
    IF rel \notin DOMAIN from_stats
    THEN [p EXCEPT !.to_delete = Append(@, Abs(to_root, rel))]
    ELSE p

\* order is the iteration order of the dicts (the order the scan met the
\* entries): a sequence without repetition holding every key of both snapshots.
Restrict(order, S) == SelectSeq(order, LAMBDA n : n \in S)

plan_one_way(from_root, to_root, from_stats, to_stats, hash, del, order) ==
    LET fromOrder == Restrict(order, DOMAIN from_stats)
        toOrder == Restrict(order, DOMAIN to_stats)
        copyLoop[i \in 0..Len(fromOrder)] ==
            IF i = 0 THEN SyncPlan
            ELSE one_way_step(from_root, to_root, from_stats, to_stats, hash,
                              copyLoop[i - 1], fromOrder[i])
        delLoop[i \in 0..Len(toOrder)] ==
            IF i = 0 THEN copyLoop[Len(fromOrder)]
            ELSE one_way_delete(from_root, to_root, from_stats, to_stats,
                                delLoop[i - 1], toOrder[i])
    IN IF del THEN delLoop[Len(toOrder)] ELSE copyLoop[Len(fromOrder)]

\* _stat_changed, with known = <<>> standing for None
NoState == <<>>
Known(states, rel) == IF rel \in DOMAIN states THEN states[rel] ELSE NoState

\* _stat_changed comparing sizes only.
stat_changed_size_only(stat, known) ==
    IF known = NoState THEN TRUE
    ELSE stat.size_bytes # known.size_bytes

\* _stat_changed taking a file that was never synced for unchanged.
stat_changed_never_synced(stat, known) ==
    IF known = NoState THEN FALSE
    ELSE stat.size_bytes # known.size_bytes \/ stat.mtime_ns # known.mtime_ns

stat_changed(stat, known) ==
    IF known = NoState THEN TRUE
    ELSE stat.size_bytes # known.size_bytes \/ stat.mtime_ns # known.mtime_ns

\* One iteration of the loop of _plan_bidirectional.
bidirectional_step(src_stats, dst_stats, hash, del, known_src, known_dst, now, p, rel) ==
    LET src_abs == Abs("src", rel)
        dst_abs == Abs("dst", rel)
        has_src == rel \in DOMAIN src_stats
        has_dst == rel \in DOMAIN dst_stats
        src_changed == has_src /\ stat_changed(src_stats[rel], Known(known_src, rel))
        dst_changed == has_dst /\ stat_changed(dst_stats[rel], Known(known_dst, rel))
    IN IF has_src /\ has_dst
       THEN IF src_changed /\ dst_changed
            THEN [p EXCEPT !.conflicts =
                     Append(@, Item(src_abs, conflict_dst_path(dst_abs, now), rel,
                                    src_stats[rel].size_bytes))]
            ELSE IF src_changed
            THEN IF files_differ(src_abs, dst_abs, src_stats[rel], dst_stats[rel], hash)
                 THEN [p EXCEPT !.to_copy =
                          Append(@, Item(src_abs, dst_abs, rel, src_stats[rel].size_bytes))]
                 ELSE [p EXCEPT !.to_skip =
                          Append(@, Item(src_abs, dst_abs, rel, src_stats[rel].size_bytes))]
            ELSE IF dst_changed
            THEN IF files_differ(dst_abs, src_abs, dst_stats[rel], src_stats[rel], hash)
                 THEN [p EXCEPT !.to_copy =
                          Append(@, Item(dst_abs, src_abs, rel, dst_stats[rel].size_bytes))]
                 ELSE [p EXCEPT !.to_skip =
                          Append(@, Item(dst_abs, src_abs, rel, dst_stats[rel].size_bytes))]
            ELSE [p EXCEPT !.to_skip =
                     Append(@, Item(src_abs, dst_abs, rel, src_stats[rel].size_bytes))]
       ELSE IF has_src /\ ~has_dst
       THEN [p EXCEPT !.to_copy =
                Append(@, Item(src_abs, dst_abs, rel, src_stats[rel].size_bytes))]
       ELSE IF has_dst /\ ~has_src
       THEN IF del
            THEN [p EXCEPT !.to_delete = Append(@, dst_abs)]
            ELSE [p EXCEPT !.to_copy =
                     Append(@, Item(dst_abs, src_abs, rel, dst_stats[rel].size_bytes))]
       ELSE p

\* _plan_bidirectional leaving its loop after the first path.
plan_bidirectional_first(src_stats, dst_stats, hash, del, known_src, known_dst, order, now) ==
    LET all_paths == Restrict(order, DOMAIN src_stats \cup DOMAIN dst_stats)
    IN IF all_paths = <<>> THEN SyncPlan
       ELSE bidirectional_step(src_stats, dst_stats, hash, del, known_src,
                               known_dst, now, SyncPlan, all_paths[1])

plan_bidirectional(src_stats, dst_stats, hash, del, known_src, known_dst, order, now) ==
    LET all_paths == Restrict(order, DOMAIN src_stats \cup DOMAIN dst_stats)
        loop[i \in 0..Len(all_paths)] ==
            IF i = 0 THEN SyncPlan
            ELSE bidirectional_step(src_stats, dst_stats, hash, del, known_src,
                                    known_dst, now, loop[i - 1], all_paths[i])
    IN loop[Len(all_paths)]

\* compare_trees planning a pull as it plans a push.
compare_trees_no_swap(src_stats, dst_stats, dir, hash, del, known_src, known_dst, order, now) ==
    IF dir \in {"source_to_dest", "dest_to_source"}
    THEN plan_one_way("src", "dst", src_stats, dst_stats, hash, del, order)
    ELSE IF dir = "bidirectional"
    THEN plan_bidirectional(src_stats, dst_stats, hash, del, known_src, known_dst,
                            order, now)
    ELSE SyncPlan

compare_trees(src_stats, dst_stats, dir, hash, del, known_src, known_dst, order, now) ==
    IF dir = "source_to_dest"
    THEN plan_one_way("src", "dst", src_stats, dst_stats, hash, del, order)
    ELSE IF dir = "dest_to_source"
    THEN plan_one_way("dst", "src", dst_stats, src_stats, hash, del, order)
    ELSE IF dir = "bidirectional"
    THEN plan_bidirectional(src_stats, dst_stats, hash, del, known_src, known_dst,
                            order, now)
    ELSE SyncPlan

\* Every iteration order of a finite set of names.
RECURSIVE Orders(_)
Orders(S) ==
    IF S = {} THEN {<<>>}
    ELSE UNION {{<<n>> \o rest : rest \in Orders(S \ {n})} : n \in S}

\* ------------------------------------------------------------ file_ops.py
NoFile == <<>>
Put(tree, name, file) ==
    [n \in DOMAIN tree \cup {name} |-> IF n = name THEN file ELSE tree[n]]
Remove(tree, name) == [n \in DOMAIN tree \ {name} |-> tree[n]]
Lookup(f, abs) == IF abs.name \in DOMAIN f[abs.root] THEN f[abs.root][abs.name] ELSE NoFile

\* open(path, "wb") / fdst.write: the file at abs becomes file
write_file(f, abs, file) == [f EXCEPT ![abs.root] = Put(@, abs.name, file)]

\* _remove_silent that leaves the file where it is.
remove_silent_noop(f, abs) == f

\* _remove_silent / os.remove
remove_silent(f, abs) == [f EXCEPT ![abs.root] = Remove(@, abs.name)]

\* atomic_copy writing straight to the final path.
tmp_path_direct(dst) == dst

\* atomic_copy: tmp = dst + ".synctmp"
tmp_path(dst) == [dst EXCEPT !.name.synctmp = @ + 1]

\* shutil.copystat that copies nothing.
copystat_none(src_file, tmp_file) == tmp_file

\* shutil.copystat(src, tmp): the source's timestamps onto the temp file
copystat(src_file, tmp_file) == [tmp_file EXCEPT !.mtime = src_file.mtime]

\* os.replace that moves nothing.
os_replace_noop(f, tmp, dst) == f

\* os.replace(tmp, dst)
os_replace(f, tmp, dst) ==
    IF tmp = dst THEN f
    ELSE write_file(remove_silent(f, tmp), dst, Lookup(f, tmp))

\* A file just opened for writing: no bytes, stamped with the time of writing
\* (0: no source file carries it).
Opened == [data |-> <<>>, mtime |-> 0]

\* --------------------------------------------------------- sync_engine.py
\* The value of emitted in the specifications that do not follow the events:
\* there the queue and the counters stay as they start.
Untraced == [traced |-> FALSE]

Traced == emitted # Untraced

EventsUntraced ==
    /\ event_queue = <<>>
    /\ received = <<>>
    /\ emitted = Untraced
    /\ done_files = 0
    /\ done_bytes = 0

EngineIdle ==
    /\ EventsUntraced
    /\ cancel_event = FALSE
    /\ pc = "idle"
    /\ snap_src = <<>>
    /\ snap_dst = <<>>
    /\ idx = 0
    /\ attempt = 0
    /\ history = <<>>
    /\ history_entries = <<>>
    /\ db_entries = <<>>
    /\ complete_events = <<>>
    /\ fs0 = <<>>
    /\ pre = <<>>
    /\ copy_result = "none"
    /\ signalled = FALSE

\* ParallelSyncManager.__init__
ManagerIdle ==
    /\ jobs = <<>>
    /\ mpc = "idle"
    /\ workers = <<>>
    /\ futures = <<>>
    /\ executor = "none"
    /\ monitor = 0
    /\ callbacks = 0

\* No directory tree under study.
WalkIdle ==
    /\ links = <<>>
    /\ wpc = "idle"
    /\ stack = <<>>
    /\ visited = {}
    /\ expanded = <<>>

DiskIdle ==
    /\ WalkIdle
    /\ tree_dirs = {}
    /\ tree_files = {}
    /\ siblings = {}
    /\ pending = {}

Tag(seq, action) == [i \in 1..Len(seq) |-> [src |-> seq[i].src, dst |-> seq[i].dst,
                        rel |-> seq[i].rel, size |-> seq[i].size, action |-> action]]

\* all_ops without the conflicts.
all_ops_copies_only(p) == Tag(p.to_copy, "copy")

\* _execute_plan: all_ops
all_ops(p) == Tag(p.to_copy, "copy") \o Tag(p.conflicts, "conflict")

Op == all_ops(plan)[idx]
Tmp == tmp_path(Op.dst)

HistEntry(rel, action, size, err) ==
    [rel |-> rel, action |-> action, size |-> size, error |-> err]

\* _execute_plan: total_files
total_files(p) == Len(all_ops(p)) + Len(p.to_delete) + Len(p.to_skip)

\* _execute_plan: total_bytes, the sum of the planned sizes of all_ops
total_bytes(p) ==
    LET ops == all_ops(p)
        sum[i \in 0..Len(ops)] == IF i = 0 THEN 0 ELSE sum[i - 1] + ops[i].size
    IN sum[Len(ops)]

\* The source root an engine works on: the first or the second of its job.
RunNo == IF "earlier_src" \in DOMAIN fs \/ "earlier_dst" \in DOMAIN fs THEN 2 ELSE 1

\* current_file = "" and the events that name no file
NoName == [rel |-> 0, stamps |-> <<>>, synctmp |-> 0]

\* The dataclasses of events.py in one shape.  run is not a field of the
\* code's events: it tells the source roots of one drive apart.
Event(type, rel, action) ==
    [drive |-> DRIVE, run |-> RunNo, type |-> type, rel |-> rel, action |-> action,
     files_done |-> 0, files_total |-> 0, bytes_done |-> 0, bytes_total |-> 0]

LogEvent == Event("log", NoName, "")

FileActionEvent(rel, action) == Event("file", rel, action)

SyncCompleteEvent(status) == Event("complete", NoName, status)

\* _emit(current_file) of _execute_plan
ProgressEvent(p, df, db, rel) ==
    [Event("progress", rel, "") EXCEPT !.files_done = df, !.files_total = total_files(p),
                                       !.bytes_done = db, !.bytes_total = total_bytes(p)]

\* _finish: the SyncCompleteEvent, then the LogEvent
FinishEvents(status) == <<SyncCompleteEvent(status), LogEvent>>

\* A put that goes to the front of the queue.
put_front(q, e) == <<e>> \o q

\* events.put: _event_queue.put_nowait(event) on an unbounded queue.Queue
put(q, e) == Append(q, e)

put_all(q, es) ==
    LET puts[i \in 0..Len(es)] == IF i = 0 THEN q ELSE put(puts[i - 1], es[i])
    IN puts[Len(es)]

\* The worker puts the events es and leaves its counters at df and db.
Report(es, df, db) ==
    /\ event_queue' = IF Traced THEN put_all(event_queue, es) ELSE event_queue
    /\ emitted' = IF Traced THEN emitted \o es ELSE emitted
    /\ done_files' = IF Traced THEN df ELSE done_files
    /\ done_bytes' = IF Traced THEN db ELSE done_bytes
    /\ UNCHANGED received

\* _execute_plan: an item of a loop is through: its FileActionEvent,
\* done_files += 1, _emit(rel).
ItemDone(rel, action) ==
    Report(<<FileActionEvent(rel, action),
             ProgressEvent(plan, done_files + 1, done_bytes, rel)>>,
           done_files + 1, done_bytes)

Finished(status) == Report(FinishEvents(status), done_files, done_bytes)

Quiet == Report(<<>>, done_files, done_bytes)

\* _finish that puts no event.
finish_silent(status) ==
    /\ history' = [history EXCEPT !.status = status]
    /\ complete_events' = complete_events
    /\ pc' = "done"

\* _finish(status): the row gets its final status and a SyncCompleteEvent
\* with that status is put on the queue
finish(status) ==
    /\ history' = [history EXCEPT !.status = status]
    /\ complete_events' = Append(complete_events, status)
    /\ pc' = "done"

\* _update_file_states: for every to_copy entry stat the entry's dst path (row
\* under the drive serial) and its src path (row under "SOURCE"); a path that
\* cannot be stat'ed gives no row.
update_file_states(f, st, p, dir) ==
    IF dir # "bidirectional" THEN st
    ELSE LET upd[i \in 0..Len(p.to_copy)] ==
                 IF i = 0 THEN st
                 ELSE LET it == p.to_copy[i]
                          a == IF Lookup(f, it.dst) # NoFile
                               THEN [upd[i - 1] EXCEPT ![DRIVE] =
                                        Put(@, it.rel, FileStat(Lookup(f, it.dst)))]
                               ELSE upd[i - 1]
                      IN IF Lookup(f, it.src) # NoFile
                         THEN [a EXCEPT ![SOURCE] =
                                  Put(@, it.rel, FileStat(Lookup(f, it.src)))]
                         ELSE a
         IN upd[Len(p.to_copy)]

\* atomic_copy: os.makedirs(os.path.dirname(dst), exist_ok=True) succeeds
\* unless the directory lies below a destination root that cannot be created.
makedirs(dst) == dst.root # "dst" \/ makedirs_ok

\* A run that never sees the event set.
is_cancelled_never == FALSE

\* A run whose _build_plan does not look at the event after the first scan.
is_cancelled_not_at_start == cancel_event /\ pc # "start"

\* _is_cancelled
is_cancelled == cancel_event

\* _cancel_check, handed to scan_tree and atomic_copy
cancel_check == cancel_event

\* atomic_copy giving up one attempt too late.
retry_exhausted_late(a) == a = COPY_RETRY_COUNT + 1

\* atomic_copy: if attempt == COPY_RETRY_COUNT: raise
retry_exhausted(a) == a = COPY_RETRY_COUNT

\* A for loop of _execute_plan that never runs out.
loop_done_never(i, seq) == FALSE

\* A for loop of _execute_plan left one item early.
loop_done_early(i, seq) == i >= Len(seq)

\* A for loop of _execute_plan has run out of items.
loop_done(i, seq) == i > Len(seq)

\* A _build_plan that goes from the source scan straight to compare_trees.
next_phase_no_dst_scan(p) ==
    IF p = "start" THEN "plan" ELSE IF p = "scan_dst" THEN "plan" ELSE "ops"

\* The statement order of _build_plan and run(): source scan, destination
\* scan, compare_trees, _execute_plan.
next_phase(p) ==
    IF p = "start" THEN "scan_dst" ELSE IF p = "scan_dst" THEN "plan" ELSE "ops"

\* run(): history row created, source scanned, first cancellation check of
\* _build_plan.
RunStart ==
    /\ pc = "start"
    /\ snap_src' = scan_tree(fs["src"])
    /\ IF is_cancelled
       THEN /\ history' = [status |-> "cancelled", files_copied |-> 0, bytes_copied |-> 0]
            /\ complete_events' = Append(complete_events, "cancelled")
            /\ pc' = "done"
       ELSE /\ history' = [status |-> "running", files_copied |-> 0, bytes_copied |-> 0]
            /\ complete_events' = complete_events
            /\ pc' = next_phase(pc)
    /\ UNCHANGED <<planVars, cancel_event, snap_dst, idx, attempt, history_entries,
                   db_entries, fs0, pre, copy_result, signalled>>
    /\ Report(<<LogEvent, LogEvent>>
                 \o (IF is_cancelled THEN FinishEvents("cancelled") ELSE <<LogEvent>>),
              done_files, done_bytes)
    /\ UNCHANGED <<managerVars, diskVars>>

\* _build_plan: destination scanned, second cancellation check.
ScanDest ==
    /\ pc = "scan_dst"
    /\ snap_dst' = scan_tree(fs["dst"])
    /\ IF is_cancelled THEN finish("cancelled")
       ELSE pc' = next_phase(pc) /\ UNCHANGED <<history, complete_events, complete_events>>
    /\ UNCHANGED <<planVars, cancel_event, snap_src, idx, attempt, history_entries,
                   db_entries, fs0, pre, copy_result, signalled>>
    /\ IF is_cancelled THEN Finished("cancelled") ELSE Quiet
    /\ UNCHANGED <<managerVars, diskVars>>

\* _build_plan: known states read, compare_trees; run(): cancellation check
\* before _execute_plan.
BuildPlan ==
    /\ pc = "plan"
    /\ \E now \in Clock :
       \E order \in Orders(DOMAIN snap_src \cup DOMAIN snap_dst) :
          plan' = compare_trees(snap_src, snap_dst, direction, use_hash,
                                delete_extraneous,
                                IF direction = "bidirectional" THEN store[SOURCE] ELSE <<>>,
                                IF direction = "bidirectional" THEN store[DRIVE] ELSE <<>>,
                                order, now)
    /\ IF is_cancelled THEN finish("cancelled") /\ UNCHANGED idx
       ELSE pc' = next_phase(pc) /\ idx' = 1 /\ UNCHANGED <<history, complete_events, complete_events>>
    /\ UNCHANGED <<fs, store, optVars, ppc, cancel_event, snap_src, snap_dst, attempt,
                   history_entries, db_entries, fs0, pre, copy_result, signalled>>
    /\ IF is_cancelled
       THEN Report(<<LogEvent>> \o FinishEvents("cancelled"), done_files, done_bytes)
       ELSE Report(<<LogEvent, ProgressEvent(plan', 0, 0, NoName)>>, 0, 0)
    /\ UNCHANGED <<managerVars, diskVars>>

\* _execute_plan, head of the copy/conflict loop: cancellation check, then
\* atomic_copy is entered; os.makedirs raises, which _execute_plan records as
\* the file's error, or _do_copy opens the temp file.
CopyBegin ==
    /\ pc = "ops"
    /\ idx <= Len(all_ops(plan))
    /\ IF is_cancelled
       THEN /\ finish("cancelled")
            /\ UNCHANGED <<fs, idx, attempt, history_entries, pre, copy_result, signalled>>
       ELSE /\ pre' = [src |-> Op.src, dst |-> Op.dst, file |-> Lookup(fs, Op.dst)]
            /\ signalled' = FALSE
            /\ IF makedirs(Op.dst)
               THEN /\ attempt' = 1
                    /\ copy_result' = "running"
                    /\ fs' = write_file(fs, Tmp, Opened)
                    /\ pc' = "chunk"
                    /\ UNCHANGED <<idx, history_entries>>
               ELSE /\ attempt' = 0
                    /\ copy_result' = "error"
                    /\ history_entries' =
                          Append(history_entries, HistEntry(Op.rel, "error", Op.size, "OSError"))
                    /\ idx' = idx + 1
                    /\ UNCHANGED <<fs, pc>>
            /\ UNCHANGED <<history, complete_events>>
    /\ UNCHANGED <<store, optVars, plan, ppc, cancel_event, snap_src, snap_dst,
                   db_entries, fs0>>
    /\ IF is_cancelled THEN Finished("cancelled")
       ELSE IF makedirs(Op.dst) THEN Quiet ELSE ItemDone(Op.rel, "error")
    /\ UNCHANGED <<managerVars, diskVars>>

\* _do_copy: cancel_check() answers True; atomic_copy removes the temp file and
\* re-raises, _execute_plan re-raises, run() finishes as cancelled.
CopyCancelled ==
    /\ pc = "chunk"
    /\ cancel_check
    /\ fs' = remove_silent(fs, Tmp)
    /\ copy_result' = "cancelled"
    /\ finish("cancelled")
    /\ UNCHANGED <<store, optVars, plan, ppc, cancel_event, snap_src, snap_dst, idx,
                   attempt, history_entries, db_entries, fs0, pre, signalled>>
    /\ Finished("cancelled")
    /\ UNCHANGED <<managerVars, diskVars>>

\* _do_copy: one chunk read from the source and written to the temp file.
CopyChunk ==
    /\ pc = "chunk"
    /\ ~cancel_check
    /\ Lookup(fs, Op.src) # NoFile
    /\ LET src == Lookup(fs, Op.src)
           tmp == Lookup(fs, Tmp)
           written == Len(tmp.data)
       IN /\ written < Len(src.data)
          /\ fs' = write_file(fs, Tmp, [tmp EXCEPT !.data = Append(@, src.data[written + 1])])
    /\ UNCHANGED <<store, optVars, plan, ppc, engineVars>>
    /\ Report(<<ProgressEvent(plan, done_files, done_bytes + 1, Op.rel)>>,
              done_files, done_bytes + 1)
    /\ UNCHANGED <<managerVars, diskVars>>

\* _do_copy: the read returns no more bytes and the loop is left.
CopyLastRead ==
    /\ pc = "chunk"
    /\ ~cancel_check
    /\ Lookup(fs, Op.src) # NoFile
    /\ Len(Lookup(fs, Tmp).data) = Len(Lookup(fs, Op.src).data)
    /\ pc' = "replace"
    /\ UNCHANGED <<planVars, cancel_event, snap_src, snap_dst, idx, attempt, history, complete_events,
                   history_entries, db_entries, fs0, pre, copy_result, signalled>>
    /\ UNCHANGED <<managerVars, diskVars, eventVars>>

\* atomic_copy: copystat and os.replace; _execute_plan records the success.
CopyReplace ==
    /\ pc = "replace"
    /\ Lookup(fs, Op.src) # NoFile
    /\ fs' = os_replace(write_file(fs, Tmp, copystat(Lookup(fs, Op.src), Lookup(fs, Tmp))),
                        Tmp, Op.dst)
    /\ copy_result' = "ok"
    /\ history_entries' = Append(history_entries, HistEntry(Op.rel, Op.action, Op.size, ""))
    /\ history' = [history EXCEPT !.files_copied = @ + 1, !.bytes_copied = @ + Op.size]
    /\ idx' = idx + 1
    /\ pc' = "ops"
    /\ UNCHANGED <<store, optVars, plan, ppc, cancel_event, snap_src, snap_dst, attempt,
                   db_entries, complete_events, fs0, pre, signalled>>
    /\ ItemDone(Op.rel, Op.action)
    /\ UNCHANGED <<managerVars, diskVars>>

\* atomic_copy: an OSError in _do_copy, copystat or os.replace; the temp file
\* is removed; the last attempt re-raises and _execute_plan records the error,
\* an earlier attempt sleeps.
CopyFail ==
    /\ pc \in {"chunk", "replace"}
    /\ fs' = remove_silent(fs, Tmp)
    /\ IF retry_exhausted(attempt)
       THEN /\ copy_result' = "error"
            /\ history_entries' =
                  Append(history_entries, HistEntry(Op.rel, "error", Op.size, "OSError"))
            /\ idx' = idx + 1
            /\ pc' = "ops"
       ELSE /\ pc' = "sleep"
            /\ UNCHANGED <<copy_result, history_entries, idx>>
    /\ UNCHANGED <<store, optVars, plan, ppc, cancel_event, snap_src, snap_dst, attempt,
                   history, complete_events, db_entries, fs0, pre, signalled>>
    /\ IF retry_exhausted(attempt) THEN ItemDone(Op.rel, "error") ELSE Quiet
    /\ UNCHANGED <<managerVars, diskVars>>

\* atomic_copy: after COPY_RETRY_DELAY the next attempt opens the temp file.
CopyRetry ==
    /\ pc = "sleep"
    /\ attempt' = attempt + 1
    /\ fs' = write_file(fs, Tmp, Opened)
    /\ pc' = "chunk"
    /\ UNCHANGED <<store, optVars, plan, ppc, cancel_event, snap_src, snap_dst, idx,
                   history, complete_events, history_entries, db_entries, fs0, pre, copy_result, signalled>>
    /\ UNCHANGED <<managerVars, diskVars, eventVars>>

\* _execute_plan: the copy/conflict loop is exhausted.
OpsDone ==
    /\ pc = "ops"
    /\ loop_done(idx, all_ops(plan))
    /\ pc' = "deletes"
    /\ idx' = 1
    /\ UNCHANGED <<planVars, cancel_event, snap_src, snap_dst, attempt, history, complete_events,
                   history_entries, db_entries, fs0, pre, copy_result, signalled>>
    /\ UNCHANGED <<managerVars, diskVars, eventVars>>

\* _execute_plan, delete loop: cancellation check, safe_delete (os.remove may
\* fail, which is logged and swallowed), history entry.
DeleteStep ==
    /\ pc = "deletes"
    /\ idx <= Len(plan.to_delete)
    /\ IF is_cancelled
       THEN /\ finish("cancelled")
            /\ UNCHANGED <<fs, idx, history_entries>>
       ELSE /\ \/ fs' = remove_silent(fs, plan.to_delete[idx])
               \/ fs' = fs
            /\ history_entries' =
                  Append(history_entries, HistEntry(plan.to_delete[idx].name, "delete", 0, ""))
            /\ idx' = idx + 1
            /\ UNCHANGED <<pc, history, complete_events, complete_events>>
    /\ UNCHANGED <<store, optVars, plan, ppc, cancel_event, snap_src, snap_dst, attempt,
                   db_entries, fs0, pre, copy_result, signalled>>
    /\ IF is_cancelled THEN Finished("cancelled")
       ELSE ItemDone(plan.to_delete[idx].name, "delete")
    /\ UNCHANGED <<managerVars, diskVars>>

DeletesDone ==
    /\ pc = "deletes"
    /\ loop_done(idx, plan.to_delete)
    /\ pc' = "skips"
    /\ idx' = 1
    /\ UNCHANGED <<planVars, cancel_event, snap_src, snap_dst, attempt, history, complete_events,
                   history_entries, db_entries, fs0, pre, copy_result, signalled>>
    /\ UNCHANGED <<managerVars, diskVars, eventVars>>

\* _execute_plan, skip loop: cancellation check, skip event.
SkipStep ==
    /\ pc = "skips"
    /\ idx <= Len(plan.to_skip)
    /\ IF is_cancelled
       THEN finish("cancelled") /\ UNCHANGED idx
       ELSE idx' = idx + 1 /\ UNCHANGED <<pc, history, complete_events, complete_events>>
    /\ UNCHANGED <<planVars, cancel_event, snap_src, snap_dst, attempt,
                   history_entries, db_entries, fs0, pre, copy_result, signalled>>
    /\ IF is_cancelled THEN Finished("cancelled")
       ELSE ItemDone(plan.to_skip[idx].rel, "skip")
    /\ UNCHANGED <<managerVars, diskVars>>

\* _execute_plan: _update_file_states, add_file_entries; run(): final status.
Finalize ==
    /\ pc = "skips"
    /\ loop_done(idx, plan.to_skip)
    /\ store' = update_file_states(fs, store, plan, direction)
    /\ db_entries' = db_entries \o history_entries
    /\ finish(IF is_cancelled THEN "cancelled" ELSE "completed")
    /\ UNCHANGED <<fs, optVars, plan, ppc, cancel_event, snap_src, snap_dst, idx, attempt,
                   history_entries, fs0, pre, copy_result, signalled>>
    /\ Finished(IF is_cancelled THEN "cancelled" ELSE "completed")
    /\ UNCHANGED <<managerVars, diskVars>>

\* ParallelSyncManager.cancel(), called from the UI thread at any moment of
\* the run.
Cancel ==
    /\ pc \notin {"idle", "done"}
    /\ ~cancel_event
    /\ cancel_event' = TRUE
    /\ signalled' = (signalled \/ pc \in {"chunk", "replace", "sleep"})
    /\ UNCHANGED <<planVars, pc, snap_src, snap_dst, idx, attempt, history, complete_events,
                   history_entries, db_entries, fs0, pre, copy_result>>
    /\ UNCHANGED <<managerVars, diskVars, eventVars>>

\* A path missing on both sides is no path: the paths after the first are
\* present on at least one side.
EveryOtherPathPresent ==
    \A p \in Paths \ {1} : Plain(p) \in DOMAIN fs["src"] \cup DOMAIN fs["dst"]

\* Trees and known states a run starts from.  delete_extraneous is read by
\* _plan_one_way alone, so the bidirectional runs start with it off; the
\* destination root can fail to be created only where it holds no file yet.
JobFiles == {[data |-> <<"a", "b">>, mtime |-> 1],
             [data |-> <<"a", "b">>, mtime |-> MaxMtime],
             [data |-> <<"b">>, mtime |-> MaxMtime]}
JobFilesAt(p) == IF p = 1 THEN JobFiles ELSE {FixedFile}
JobStatesAt(p) == IF p = 1 THEN {FileStat([data |-> <<"a", "b">>, mtime |-> 1])} ELSE {}

JobTrees == UNION {{t \in [{Plain(p) : p \in S} -> File] :
                    \A p \in S : t[Plain(p)] \in JobFilesAt(p)} : S \in SUBSET Paths}
JobKnownStates == UNION {{k \in [{Plain(p) : p \in S} -> FileState] :
                    \A p \in S : k[Plain(p)] \in JobStatesAt(p)} : S \in SUBSET Paths}

InitJob ==
    /\ fs \in [Roots -> JobTrees]
    /\ EveryOtherPathPresent
    /\ direction \in Directions
    /\ store \in [Serials -> JobKnownStates]
    /\ direction # "bidirectional" => store = [s \in Serials |-> <<>>]
    /\ use_hash \in BOOLEAN
    /\ delete_extraneous \in BOOLEAN
    /\ direction = "bidirectional" => ~delete_extraneous
    /\ makedirs_ok \in BOOLEAN
    /\ fs["dst"] # <<>> => makedirs_ok
    /\ plan = SyncPlan
    /\ ppc = "input"
    /\ cancel_event = FALSE
    /\ pc = "start"
    /\ snap_src = <<>>
    /\ snap_dst = <<>>
    /\ idx = 0
    /\ attempt = 0
    /\ history = <<>>
    /\ history_entries = <<>>
    /\ db_entries = <<>>
    /\ complete_events = <<>>
    /\ fs0 = fs
    /\ pre = <<>>
    /\ copy_result = "none"
    /\ signalled = FALSE
    /\ EventsUntraced
    /\ ManagerIdle
    /\ DiskIdle

\* run() on trees whose scan can meet errors: RunStart and ScanDest with
\* any outcome of scan_tree as the snapshot.
ScanSourceWithErrors ==
    /\ pc = "start"
    /\ snap_src' \in scan_outcomes(fs["src"])
    /\ IF is_cancelled
       THEN /\ history' = [status |-> "cancelled", files_copied |-> 0, bytes_copied |-> 0]
            /\ complete_events' = Append(complete_events, "cancelled")
            /\ pc' = "done"
       ELSE /\ history' = [status |-> "running", files_copied |-> 0, bytes_copied |-> 0]
            /\ complete_events' = complete_events
            /\ pc' = next_phase(pc)
    /\ UNCHANGED <<planVars, cancel_event, snap_dst, idx, attempt, history_entries,
                   db_entries, fs0, pre, copy_result, signalled>>
    /\ UNCHANGED <<managerVars, diskVars, eventVars>>

ScanDestWithErrors ==
    /\ pc = "scan_dst"
    /\ snap_dst' \in scan_outcomes(fs["dst"])
    /\ IF is_cancelled THEN finish("cancelled")
       ELSE pc' = next_phase(pc) /\ UNCHANGED <<history, complete_events>>
    /\ UNCHANGED <<planVars, cancel_event, snap_src, idx, attempt, history_entries,
                   db_entries, fs0, pre, copy_result, signalled>>
    /\ UNCHANGED <<managerVars, diskVars, eventVars>>

NextJob ==
    \/ RunStart \/ ScanDest \/ BuildPlan
    \/ CopyBegin \/ CopyCancelled \/ CopyChunk \/ CopyLastRead \/ CopyReplace
    \/ CopyFail \/ CopyRetry \/ OpsDone
    \/ DeleteStep \/ DeletesDone \/ SkipStep \/ Finalize
    \/ Cancel

SpecJob == InitJob /\ [][NextJob]_vars

\* The steps of the thread that executes run(): every call it makes returns
\* and the thread is scheduled again.  cancel() is the user's and may never
\* come.
RunStep ==
    \/ RunStart \/ ScanDest \/ BuildPlan
    \/ CopyBegin \/ CopyCancelled \/ CopyChunk \/ CopyLastRead \/ CopyReplace
    \/ CopyFail \/ CopyRetry \/ OpsDone
    \/ DeleteStep \/ DeletesDone \/ SkipStep \/ Finalize

\* The runs followed to their end: no hashing, a destination that holds at
\* most the first path.
InitLive ==
    /\ InitJob
    /\ ~use_hash
    /\ DOMAIN fs["dst"] \subseteq {Plain(1)}

SpecJobLive == InitLive /\ [][NextJob]_vars /\ WF_vars(RunStep)

\* One-way runs with delete_extraneous on trees whose scan can meet errors.
InitScan ==
    /\ InitJob
    /\ direction \in {"source_to_dest", "dest_to_source"}
    /\ delete_extraneous
    /\ makedirs_ok

NextScan ==
    \/ ScanSourceWithErrors \/ ScanDestWithErrors \/ BuildPlan
    \/ CopyBegin \/ CopyCancelled \/ CopyChunk \/ CopyLastRead \/ CopyReplace
    \/ CopyFail \/ CopyRetry \/ OpsDone
    \/ DeleteStep \/ DeletesDone \/ SkipStep \/ Finalize
    \/ Cancel

SpecScan == InitScan /\ [][NextScan]_vars

\* SyncEngine.__init__ for the next run of a worker: nothing scanned, no
\* history row, no entry collected.
NewEngine ==
    /\ pc' = "start"
    /\ snap_src' = <<>>
    /\ snap_dst' = <<>>
    /\ idx' = 0
    /\ attempt' = 0
    /\ history' = <<>>
    /\ history_entries' = <<>>
    /\ pre' = <<>>
    /\ copy_result' = "none"
    /\ signalled' = FALSE
    /\ plan' = SyncPlan
    /\ fs0' = fs'

\* _run_job: the next iteration of for source_path in job.sources builds an
\* engine for the next source root and the same dest_root.  "src" names the
\* source root of the engine at work; the root gone through is kept as
\* "earlier_src".
NextSourceRoot ==
    /\ pc = "done"
    /\ "next_src" \in DOMAIN fs
    /\ ~cancel_event
    /\ fs' = [src |-> fs["next_src"], dst |-> fs["dst"], earlier_src |-> fs["src"]]
    /\ NewEngine
    /\ UNCHANGED <<store, optVars, ppc, cancel_event, db_entries, complete_events>>
    /\ UNCHANGED <<managerVars, diskVars, eventVars>>

\* One-way pushes with delete_extraneous of a job with two source roots.
InitSources ==
    /\ fs \in [{"src", "dst", "next_src"} -> JobTrees]
    /\ direction = "source_to_dest"
    /\ store = [s \in Serials |-> <<>>]
    /\ use_hash = FALSE
    /\ delete_extraneous = TRUE
    /\ makedirs_ok = TRUE
    /\ ppc = "input"
    /\ cancel_event = FALSE
    /\ db_entries = <<>>
    /\ complete_events = <<>>
    /\ pc = "start"
    /\ snap_src = <<>>
    /\ snap_dst = <<>>
    /\ idx = 0
    /\ attempt = 0
    /\ history = <<>>
    /\ history_entries = <<>>
    /\ pre = <<>>
    /\ copy_result = "none"
    /\ signalled = FALSE
    /\ plan = SyncPlan
    /\ fs0 = fs
    /\ EventsUntraced
    /\ ManagerIdle
    /\ DiskIdle

NextSources == NextJob \/ NextSourceRoot

SpecSources == InitSources /\ [][NextSources]_vars

\* The worker of a second drive builds its engine when the run of the first
\* drive's worker has ended: the same source root, its own dest_root and
\* drive_serial.  "dst" and DRIVE name the destination of the engine at work.
NextDrive ==
    /\ pc = "done"
    /\ "next_dst" \in DOMAIN fs
    /\ ~cancel_event
    /\ fs' = [src |-> fs["src"], dst |-> fs["next_dst"], earlier_dst |-> fs["dst"]]
    /\ store' = [SOURCE |-> store[SOURCE], DRIVE |-> store["NEXT_DRIVE"],
                 EARLIER_DRIVE |-> store[DRIVE]]
    /\ NewEngine
    /\ UNCHANGED <<optVars, ppc, cancel_event, db_entries, complete_events>>
    /\ UNCHANGED <<managerVars, diskVars, eventVars>>

\* The runs of two drives on one source root.  The last sync left the first
\* path equal on the source and the two drives, with its state rows; since
\* then the source may have been edited, may have lost the file and may hold
\* new files.
LastSynced == [data |-> <<"a", "b">>, mtime |-> 1]

InitDrives ==
    /\ fs \in [{"src", "dst", "next_dst"} -> JobTrees]
    /\ fs["dst"] = [n \in {Plain(1)} |-> LastSynced]
    /\ fs["next_dst"] = fs["dst"]
    /\ direction \in {"bidirectional", "source_to_dest"}
    /\ store = [s \in {SOURCE, DRIVE, "NEXT_DRIVE"} |->
                   [n \in {Plain(1)} |-> FileStat(LastSynced)]]
    /\ use_hash \in BOOLEAN
    /\ delete_extraneous \in BOOLEAN
    /\ makedirs_ok = TRUE
    /\ ppc = "input"
    /\ cancel_event = FALSE
    /\ db_entries = <<>>
    /\ complete_events = <<>>
    /\ pc = "start"
    /\ snap_src = <<>>
    /\ snap_dst = <<>>
    /\ idx = 0
    /\ attempt = 0
    /\ history = <<>>
    /\ history_entries = <<>>
    /\ pre = <<>>
    /\ copy_result = "none"
    /\ signalled = FALSE
    /\ plan = SyncPlan
    /\ fs0 = fs
    /\ EventsUntraced
    /\ ManagerIdle
    /\ DiskIdle

NextDrives == NextJob \/ NextDrive

SpecDrives == InitDrives /\ [][NextDrives]_vars

\* The UI thread, inside for event in events.drain(): one get_nowait().
Drain ==
    /\ Traced
    /\ event_queue # <<>>
    /\ received' = Append(received, Head(event_queue))
    /\ event_queue' = Tail(event_queue)
    /\ UNCHANGED <<emitted, done_files, done_bytes>>
    /\ UNCHANGED <<planVars, engineVars, managerVars, diskVars>>

\* The events of the workers of the other drives.
OTHER_DRIVE == "OTHER"

Foreign == SelectSeq(received \o event_queue, LAMBDA e : e.drive = OTHER_DRIVE)

\* The worker of another drive, whose job has one source root, ends its run
\* while the job under study is at work: _finish puts its SyncCompleteEvent.
OtherDriveFinish ==
    /\ Traced
    /\ pc # "done" \/ "next_src" \in DOMAIN fs
    /\ Foreign = <<>>
    /\ event_queue' = put(event_queue,
                          [SyncCompleteEvent("completed") EXCEPT !.drive = OTHER_DRIVE, !.run = 1])
    /\ UNCHANGED <<received, emitted, done_files, done_bytes>>
    /\ UNCHANGED <<planVars, engineVars, managerVars, diskVars>>

\* One-way pushes of a job with two source roots of at most one file of one
\* chunk into an empty destination, with the queue, the UI thread and the
\* events of another drive followed.
InitEvents ==
    /\ fs \in [{"src", "dst", "next_src"} -> JobTrees]
    /\ DOMAIN fs["src"] = {Plain(MaxPaths)}
    /\ DOMAIN fs["next_src"] \subseteq {Plain(MaxPaths)}
    /\ fs["dst"] = <<>>
    /\ direction = "source_to_dest"
    /\ store = [s \in Serials |-> <<>>]
    /\ use_hash = FALSE
    /\ delete_extraneous = TRUE
    /\ makedirs_ok = TRUE
    /\ ppc = "input"
    /\ cancel_event = FALSE
    /\ db_entries = <<>>
    /\ complete_events = <<>>
    /\ pc = "start"
    /\ snap_src = <<>>
    /\ snap_dst = <<>>
    /\ idx = 0
    /\ attempt = 0
    /\ history = <<>>
    /\ history_entries = <<>>
    /\ pre = <<>>
    /\ copy_result = "none"
    /\ signalled = FALSE
    /\ plan = SyncPlan
    /\ fs0 = fs
    /\ event_queue = <<>>
    /\ received = <<>>
    /\ emitted = <<>>
    /\ done_files = 0
    /\ done_bytes = 0
    /\ ManagerIdle
    /\ DiskIdle

NextEvents == NextJob \/ NextSourceRoot \/ Drain \/ OtherDriveFinish

SpecEvents == InitEvents /\ [][NextEvents]_vars

\* One worker of scan_tree on any graph of directories and links, cycles
\* included, with the event set or not.
InitWalk ==
    /\ links \in [Dirs -> SUBSET Dirs]
    /\ wpc = "start"
    /\ stack = <<>>
    /\ visited = {}
    /\ expanded = [d \in Dirs |-> 0]
    /\ tree_dirs = {}
    /\ tree_files = {}
    /\ siblings = {}
    /\ pending = {}
    /\ fs = [r \in Roots |-> <<>>]
    /\ store = [s \in Serials |-> <<>>]
    /\ direction = "source_to_dest"
    /\ use_hash = FALSE
    /\ delete_extraneous = FALSE
    /\ makedirs_ok = TRUE
    /\ plan = SyncPlan
    /\ ppc = "input"
    /\ EventsUntraced
    /\ cancel_event \in BOOLEAN
    /\ pc = "start"
    /\ snap_src = <<>>
    /\ snap_dst = <<>>
    /\ idx = 0
    /\ attempt = 0
    /\ history = <<>>
    /\ history_entries = <<>>
    /\ db_entries = <<>>
    /\ complete_events = <<>>
    /\ fs0 = <<>>
    /\ pre = <<>>
    /\ copy_result = "none"
    /\ signalled = FALSE
    /\ ManagerIdle

NextWalk == WalkStart \/ WalkEntry \/ WalkReturn \/ WalkEnd

SpecWalk == InitWalk /\ [][NextWalk]_vars

\* The worker's thread is scheduled as long as it has a step to take.
SpecWalkLive == SpecWalk /\ WF_vars(NextWalk)

\* scan_tree handed a cancel_check: once the check answers True the scan
\* returns the snapshot accumulated so far, any part of the complete one.
scan_tree_cancellable(tree, cancelled) ==
    IF cancelled THEN scan_outcomes(tree) ELSE {scan_tree(tree)}

\* run() with the scans of _build_plan and the checks that follow them as
\* separate steps, on a scheduler whose start() can be called again.
ScanSource ==
    /\ pc = "start"
    /\ snap_src' \in scan_tree_cancellable(fs["src"], cancel_check)
    /\ history' = [status |-> "running", files_copied |-> 0, bytes_copied |-> 0]
    /\ pc' = "check_src"
    /\ UNCHANGED <<planVars, cancel_event, snap_dst, idx, attempt, history_entries,
                   db_entries, complete_events, fs0, pre, copy_result, signalled>>
    /\ UNCHANGED <<managerVars, diskVars, eventVars>>

\* _build_plan: if self._is_cancelled(): raise _CancelledError()
CheckSource ==
    /\ pc = "check_src"
    /\ IF is_cancelled THEN finish("cancelled")
       ELSE pc' = "scan_dst" /\ UNCHANGED <<history, complete_events>>
    /\ UNCHANGED <<planVars, cancel_event, snap_src, snap_dst, idx, attempt,
                   history_entries, db_entries, fs0, pre, copy_result, signalled>>
    /\ UNCHANGED <<managerVars, diskVars, eventVars>>

ScanDestination ==
    /\ pc = "scan_dst"
    /\ snap_dst' \in scan_tree_cancellable(fs["dst"], cancel_check)
    /\ pc' = "check_dst"
    /\ UNCHANGED <<planVars, cancel_event, snap_src, idx, attempt, history,
                   history_entries, db_entries, complete_events, fs0, pre,
                   copy_result, signalled>>
    /\ UNCHANGED <<managerVars, diskVars, eventVars>>

CheckDestination ==
    /\ pc = "check_dst"
    /\ IF is_cancelled THEN finish("cancelled")
       ELSE pc' = "plan" /\ UNCHANGED <<history, complete_events>>
    /\ UNCHANGED <<planVars, cancel_event, snap_src, snap_dst, idx, attempt,
                   history_entries, db_entries, fs0, pre, copy_result, signalled>>
    /\ UNCHANGED <<managerVars, diskVars, eventVars>>

\* start() called again on the scheduler whose run is in progress:
\* self._cancel_event.clear()
StartAgain ==
    /\ pc \notin {"idle", "done"}
    /\ cancel_event
    /\ cancel_event' = FALSE
    /\ UNCHANGED <<planVars, engineLocal>>
    /\ UNCHANGED <<managerVars, diskVars, eventVars>>

NextRestart ==
    \/ ScanSource \/ CheckSource \/ ScanDestination \/ CheckDestination \/ BuildPlan
    \/ CopyBegin \/ CopyCancelled \/ CopyChunk \/ CopyLastRead \/ CopyReplace
    \/ CopyFail \/ CopyRetry \/ OpsDone
    \/ DeleteStep \/ DeletesDone \/ SkipStep \/ Finalize
    \/ Cancel \/ StartAgain

InitRestart ==
    /\ InitScan
    /\ direction = "source_to_dest"
    /\ ~use_hash

SpecRestart == InitRestart /\ [][NextRestart]_vars


\* -------------------------------------------------------- parallel_sync.py
MaxJobs == 4
MaxDests == 2
MaxSources == 2

Dests == 1..MaxDests
\* db/models.py DriveJob: the destination root and the source folders
SourceLists == {[i \in 1..n |-> i] : n \in 1..MaxSources}
DriveJob == [dest : Dests, sources : SourceLists]
\* The lists start() is called with: any destinations, and, as the sync panel
\* builds them, the same source folders in every job.
JobLists == {js \in UNION {[1..n -> DriveJob] : n \in 0..MaxJobs} :
                \A a, b \in 1..Len(js) : js[a].sources = js[b].sources}

Min(a, b) == IF a < b THEN a ELSE b

\* start(): one _run_job thread for every source folder of every job.
submit_per_source(js) ==
    LET total[k \in 0..Len(js)] ==
            IF k = 0 THEN <<>>
            ELSE total[k - 1] \o
                 [i \in 1..Len(js[k].sources) |->
                    [dest |-> js[k].dest, sources |-> <<js[k].sources[i]>>,
                     i |-> 1, st |-> "loop", failed |-> FALSE]]
    IN total[Len(js)]

\* start(): self._executor.submit(self._run_job, job) for job in jobs; the
\* pool has a thread for each, so every _run_job starts at its loop head.
submit_all(js) ==
    [k \in 1..Len(js) |->
        [dest |-> js[k].dest, sources |-> js[k].sources, i |-> 1, st |-> "loop",
         failed |-> FALSE]]

\* start() with an empty list: warning, nothing else.
StartEmpty ==
    /\ mpc = "idle"
    /\ jobs = <<>>
    /\ mpc' = "returned"
    /\ UNCHANGED <<jobs, workers, futures, executor, monitor, callbacks, cancel_event>>
    /\ UNCHANGED <<planVars, engineLocal, diskVars, eventVars>>

\* start(): jobs cut to MAX_DRIVES, cancel event cleared, executor created,
\* one future per job, monitor thread started.
Start ==
    /\ mpc = "idle"
    /\ jobs # <<>>
    /\ jobs' = SubSeq(jobs, 1, Min(Len(jobs), MAX_DRIVES))
    /\ workers' = submit_all(jobs')
    /\ futures' = [k \in 1..Len(workers') |-> k]
    /\ cancel_event' = FALSE
    /\ executor' = "live"
    /\ monitor' = 1
    /\ mpc' = "started"
    /\ UNCHANGED callbacks
    /\ UNCHANGED <<planVars, engineLocal, diskVars, eventVars>>

\* A cancel() that flips the event.
cancel_toggle(ev) == ~ev

\* cancel(): self._cancel_event.set()
cancel(ev) == TRUE

\* cancel() called in any state of the manager, any number of times.
ManagerCancel ==
    /\ cancel_event' = cancel(cancel_event)
    /\ UNCHANGED <<managerVars, diskVars, eventVars>>
    /\ UNCHANGED <<planVars, engineLocal, diskVars, eventVars>>

\* _run_job, loop head: the sources are exhausted or the event is set, and the
\* thread ends; otherwise a SyncEngine is built and engine.run() is entered.
WorkerNext(w) ==
    /\ workers[w].st = "loop"
    /\ IF workers[w].i > Len(workers[w].sources) \/ cancel_event
       THEN workers' = [workers EXCEPT ![w].st = "done"]
       ELSE workers' = [workers EXCEPT ![w].st = "running"]
    /\ UNCHANGED <<jobs, mpc, futures, executor, monitor, callbacks, cancel_event>>
    /\ UNCHANGED <<planVars, engineLocal, diskVars, eventVars>>

\* How engine.run() ends: it returns after _finish("completed") or
\* _finish("cancelled"), it returns after _finish("error"), or it raises.
RunOutcomes == {"returned", "error", "raised"}

\* _run_job leaving its loop when engine.run() raised.
after_run_break(wk, outcome) ==
    IF outcome = "raised"
    THEN [wk EXCEPT !.st = "done", !.failed = TRUE]
    ELSE [wk EXCEPT !.st = "loop", !.i = @ + 1, !.failed = @ \/ outcome = "error"]

\* _run_job after engine.run(): an exception is logged, and in every case the
\* loop goes to the next source.  failed remembers that a run of this worker
\* ended in error or raised.
after_run(wk, outcome) ==
    [wk EXCEPT !.st = "loop", !.i = @ + 1, !.failed = @ \/ outcome # "returned"]

\* _run_job: engine.run() returned or raised.
EngineEnd(w) ==
    /\ workers[w].st = "running"
    /\ \E outcome \in RunOutcomes :
          workers' = [workers EXCEPT ![w] = after_run(@, outcome)]
    /\ UNCHANGED <<jobs, mpc, futures, executor, monitor, callbacks, cancel_event>>
    /\ UNCHANGED <<planVars, engineLocal, diskVars, eventVars>>

\* A future that counts as done from the moment it was submitted.
future_done_always(w) == TRUE

\* Future.done(): the _run_job call of the future has ended
future_done(w) == workers[w].st = "done"

\* _monitor: f.result() returns for the next future of its list.
MonitorJoin ==
    /\ monitor \in 1..Len(futures)
    /\ future_done(futures[monitor])
    /\ monitor' = monitor + 1
    /\ UNCHANGED <<jobs, mpc, workers, futures, executor, callbacks, cancel_event>>
    /\ UNCHANGED <<planVars, engineLocal, diskVars, eventVars>>

\* _monitor: executor shut down and dropped, on_all_done called.
MonitorFinish ==
    /\ monitor = Len(futures) + 1
    /\ monitor > 1
    /\ executor' = "none"
    /\ callbacks' = callbacks + 1
    /\ monitor' = -1
    /\ UNCHANGED <<jobs, mpc, workers, futures, cancel_event>>
    /\ UNCHANGED <<planVars, engineLocal, diskVars, eventVars>>

\* is_running read off the executor instead of the futures.
is_running_executor == executor = "live"

\* is_running: any(not f.done() for f in self._futures)
is_running == \E k \in 1..Len(futures) : ~future_done(futures[k])

InitManager ==
    /\ jobs \in JobLists
    /\ mpc = "idle"
    /\ workers = <<>>
    /\ futures = <<>>
    /\ executor = "none"
    /\ monitor = 0
    /\ callbacks = 0
    /\ fs = [r \in Roots |-> <<>>]
    /\ store = [s \in Serials |-> <<>>]
    /\ direction = "source_to_dest"
    /\ use_hash = FALSE
    /\ delete_extraneous = FALSE
    /\ makedirs_ok = TRUE
    /\ plan = SyncPlan
    /\ ppc = "input"
    /\ EngineIdle
    /\ DiskIdle

NextManager ==
    \/ StartEmpty \/ Start \/ ManagerCancel
    \/ \E w \in 1..Len(workers) : WorkerNext(w)
    \/ \E w \in 1..Len(workers) : EngineEnd(w)
    \/ MonitorJoin \/ MonitorFinish

SpecManager == InitManager /\ [][NextManager]_vars

\* A step of a thread the manager started: a _run_job thread or the monitor.
ThreadStep ==
    \/ \E w \in 1..Len(workers) : WorkerNext(w)
    \/ \E w \in 1..Len(workers) : EngineEnd(w)
    \/ MonitorJoin \/ MonitorFinish

\* The operating system keeps scheduling the threads that can run and every
\* engine.run() ends: while some thread of the manager can take a step, one
\* does.  start() and cancel() are the caller's to make or not.
SpecManagerLive == SpecManager /\ WF_vars(ThreadStep)

\* ----------------------------------------------- file_ops.py: safe_delete
MaxDepth == 1
MaxAbove == 1
MaxFiles == 2

\* The directories on the path through the sync root: level 0 is the root,
\* levels 1..MaxDepth are nested below it, levels -1..-MaxAbove lie above it
\* (the parent of level -MaxAbove is the filesystem root).
Levels == (0 - MaxAbove)..MaxDepth
TreeFile == (0..MaxDepth) \X (1..MaxFiles)

\* os.path.dirname of a file
dirname(f) == f[1]

\* What os.rmdir asks of directory k: it exists and holds no file, no
\* directory and no other entry.
IsEmptyDir(dirs, files, sibs, k) ==
    /\ k \in dirs
    /\ ~\E n \in 1..MaxFiles : <<k, n>> \in files
    /\ (k + 1) \notin dirs
    /\ k \notin sibs

\* os.removedirs(k): os.rmdir(k), then the parent, then its parent, until one
\* rmdir fails; the filesystem root cannot be removed.
RECURSIVE removedirs(_, _, _, _)
removedirs(dirs, files, sibs, k) ==
    IF k >= 0 - MaxAbove /\ IsEmptyDir(dirs, files, sibs, k)
    THEN removedirs(dirs \ {k}, files, sibs, k - 1)
    ELSE dirs

\* safe_delete(path) when os.remove succeeds: the file is gone, then
\* os.removedirs(os.path.dirname(path)), whose OSError is swallowed.
safe_delete(dirs, files, sibs, f) ==
    [files |-> files \ {f},
     dirs |-> removedirs(dirs, files \ {f}, sibs, dirname(f))]

\* _execute_plan, delete loop, for the next entry of plan.to_delete:
\* safe_delete(dst_abs), in which os.remove raises (logged, nothing removed)
\* or succeeds.
SafeDelete ==
    /\ \E f \in pending :
          /\ pending' = pending \ {f}
          /\ \/ UNCHANGED <<tree_dirs, tree_files>>
             \/ /\ f \in tree_files
                /\ tree_files' = safe_delete(tree_dirs, tree_files, siblings, f).files
                /\ tree_dirs' = safe_delete(tree_dirs, tree_files, siblings, f).dirs
    /\ UNCHANGED siblings
    /\ UNCHANGED <<planVars, engineVars, managerVars, eventVars, walkVars>>

\* A sync root with its files; every directory that holds an entry exists,
\* the root and the directories above it exist, and the plan deletes some of
\* the files.
InitDelete ==
    /\ tree_files \in SUBSET TreeFile
    /\ \E deepest \in 0..MaxDepth :
          /\ \A f \in tree_files : dirname(f) <= deepest
          /\ tree_dirs = (0 - MaxAbove)..deepest
    /\ siblings \in SUBSET ((0 - MaxAbove)..(0 - 1))
    /\ pending \in SUBSET tree_files
    /\ WalkIdle
    /\ fs = [r \in Roots |-> <<>>]
    /\ store = [s \in Serials |-> <<>>]
    /\ direction = "source_to_dest"
    /\ use_hash = FALSE
    /\ delete_extraneous = TRUE
    /\ makedirs_ok = TRUE
    /\ plan = SyncPlan
    /\ ppc = "input"
    /\ EngineIdle
    /\ ManagerIdle

NextDelete == SafeDelete

SpecDelete == InitDelete /\ [][NextDelete]_vars

\* --------------------------------------------------- SpecPlan: the driver
\* Trees and known states the planner is applied to.  The first path takes
\* every file and every known state; the other paths exist to give the lists
\* several entries and take one fixed file and no known state.
FilesAt(p) == IF p = 1 THEN File ELSE {FixedFile}
StatesAt(p) == IF p = 1 THEN FileState ELSE {}

Trees == UNION {{t \in [{Plain(p) : p \in S} -> File] :
                    \A p \in S : t[Plain(p)] \in FilesAt(p)} : S \in SUBSET Paths}
KnownStates == UNION {{k \in [{Plain(p) : p \in S} -> FileState] :
                    \A p \in S : k[Plain(p)] \in StatesAt(p)} : S \in SUBSET Paths}

InitPlan ==
    /\ fs \in [Roots -> Trees]
    /\ EveryOtherPathPresent
    /\ direction \in Directions
    /\ use_hash \in BOOLEAN
    /\ delete_extraneous \in BOOLEAN
    /\ store \in [Serials -> KnownStates]
    /\ direction # "bidirectional" => store = [s \in Serials |-> <<>>]
    /\ makedirs_ok = TRUE
    /\ plan = SyncPlan
    /\ ppc = "input"
    /\ EngineIdle
    /\ ManagerIdle
    /\ DiskIdle

\* compare_trees called as SyncEngine._build_plan calls it, with the options
\* the engine was constructed with; the known states are loaded for a
\* bidirectional run only.
Compare ==
    /\ ppc = "input"
    /\ \E now \in Clock :
       \E order \in Orders(DOMAIN fs["src"] \cup DOMAIN fs["dst"]) :
          plan' = compare_trees(scan_tree(fs["src"]), scan_tree(fs["dst"]),
                                direction, use_hash, delete_extraneous,
                                IF direction = "bidirectional" THEN store[SOURCE] ELSE <<>>,
                                IF direction = "bidirectional" THEN store[DRIVE] ELSE <<>>,
                                order, now)
    /\ ppc' = "planned"
    /\ UNCHANGED <<fs, store, optVars, engineVars, managerVars, diskVars, eventVars>>

NextPlan == Compare

SpecPlan == InitPlan /\ [][NextPlan]_vars

\* The inputs of SpecPlan whose known states are states of files present:
\* _plan_bidirectional reads known_src.get(rel) and known_dst.get(rel) only
\* for a rel its side holds.
InitKnown ==
    /\ InitPlan
    /\ DOMAIN store[SOURCE] \subseteq DOMAIN fs["src"]
    /\ DOMAIN store[DRIVE] \subseteq DOMAIN fs["dst"]

SpecKnown == InitKnown /\ [][NextPlan]_vars

\* ------------------------------------------------- claims on compare_trees
InList(seq, rel) == {i \in 1..Len(seq) : seq[i].rel = rel}
InDelete(rel) == {i \in 1..Len(plan.to_delete) : plan.to_delete[i].name = rel}

\* How many entries of the four lists of the plan classify rel.
Classified(rel) ==
    Cardinality(InList(plan.to_copy, rel)) + Cardinality(InList(plan.conflicts, rel))
    + Cardinality(InList(plan.to_skip, rel)) + Cardinality(InDelete(rel))

PlannedRels ==
    {plan.to_copy[i].rel : i \in 1..Len(plan.to_copy)}
    \cup {plan.conflicts[i].rel : i \in 1..Len(plan.conflicts)}
    \cup {plan.to_skip[i].rel : i \in 1..Len(plan.to_skip)}
    \cup {plan.to_delete[i].name : i \in 1..Len(plan.to_delete)}

SrcPaths == DOMAIN fs["src"]
DstPaths == DOMAIN fs["dst"]
AllPaths == SrcPaths \cup DstPaths

\* The side a one-way plan copies to.
ToRoot == IF direction = "dest_to_source" THEN "src" ELSE "dst"
FromRoot == IF direction = "dest_to_source" THEN "dst" ELSE "src"
OneWay == direction \in {"source_to_dest", "dest_to_source"}

\* A path only the receiving side of a one-way plan holds, deletion not asked.
LeftAlone(rel) ==
    /\ OneWay
    /\ ~delete_extraneous
    /\ rel \in DOMAIN fs[ToRoot]
    /\ rel \notin DOMAIN fs[FromRoot]

\* C1 as stated: every path of the union of the two snapshots is in exactly
\* one of to_copy, to_delete, conflicts, to_skip.
C1_EveryPathOnce ==
    ppc = "planned" => \A rel \in AllPaths : Classified(rel) = 1

\* C1 amended: every path of the union is classified exactly once, except the
\* paths only the receiving side of a one-way plan holds when delete_extraneous
\* is off, which are in no list; nothing outside the union is classified.
C1_EveryPathOnceUnlessLeftAlone ==
    ppc = "planned" =>
        /\ \A rel \in AllPaths :
              Classified(rel) = (IF LeftAlone(rel) THEN 0 ELSE 1)
        /\ PlannedRels \subseteq AllPaths

C1_Witness ==
    /\ ppc = "planned"
    /\ \E rel \in AllPaths : LeftAlone(rel) /\ Classified(rel) = 0
    /\ \E rel \in AllPaths : Classified(rel) = 1

\* C2: no relative path is in more than one list of the plan, and none is
\* twice in one list.
C2_ListsDisjoint ==
    ppc = "planned" => \A rel \in PlannedRels : Classified(rel) = 1

C2_Witness ==
    /\ ppc = "planned"
    /\ Cardinality(PlannedRels) = MaxPaths
    /\ Len(plan.to_copy) > 0
    /\ Len(plan.to_delete) + Len(plan.conflicts) + Len(plan.to_skip) > 0

OnBoth(rel) == rel \in SrcPaths /\ rel \in DstPaths
SrcStat(rel) == FileStat(fs["src"][rel])
DstStat(rel) == FileStat(fs["dst"][rel])
SameSize(rel) == SrcStat(rel).size_bytes = DstStat(rel).size_bytes
SameMtime(rel) == SrcStat(rel).mtime_ns = DstStat(rel).mtime_ns

\* C4: a path on both sides with equal size and equal modification time is
\* a skip in every direction and for every known state.
C4_EqualStatIsSkip ==
    ppc = "planned" =>
        \A rel \in AllPaths :
            (OnBoth(rel) /\ SameSize(rel) /\ SameMtime(rel))
                => InList(plan.to_skip, rel) # {}

\* Neither side differs from its known-state entry.
NeitherChanged(rel) ==
    /\ rel \in DOMAIN store[SOURCE]
    /\ rel \in DOMAIN store[DRIVE]
    /\ store[SOURCE][rel] = SrcStat(rel)
    /\ store[DRIVE][rel] = DstStat(rel)

\* C5 as stated: hashing off, a path on both sides with equal size and
\* different modification times is never a skip.
C5_MtimeDiffNeverSkip ==
    (ppc = "planned" /\ ~use_hash) =>
        \A rel \in AllPaths :
            (OnBoth(rel) /\ SameSize(rel) /\ ~SameMtime(rel))
                => InList(plan.to_skip, rel) = {}

\* C5 amended: hashing off, such a path is a skip exactly when the plan is
\* bidirectional and neither side changed against its known-state entry.
C5_MtimeDiffSkipOnlyUnchanged ==
    (ppc = "planned" /\ ~use_hash) =>
        \A rel \in AllPaths :
            (OnBoth(rel) /\ SameSize(rel) /\ ~SameMtime(rel))
                => (InList(plan.to_skip, rel) # {}
                        <=> (direction = "bidirectional" /\ NeitherChanged(rel)))

C5_Witness ==
    /\ ppc = "planned"
    /\ ~use_hash
    /\ \E rel \in AllPaths :
          /\ OnBoth(rel) /\ SameSize(rel) /\ ~SameMtime(rel)
          /\ InList(plan.to_copy, rel) # {}
          /\ direction = "bidirectional"

\* --------------------------------------------------- claims on one run
Done == pc = "done"
Completed == Done /\ history.status = "completed"
Recorded(rel, action) ==
    \E i \in 1..Len(history_entries) :
        history_entries[i].rel = rel /\ history_entries[i].action = action
NoTransferFailed ==
    \A i \in 1..Len(history_entries) : history_entries[i].action # "error"

\* The receiving side of a one-way run held nothing the other side lacked.
NoExtraneous == DOMAIN fs0[ToRoot] \subseteq DOMAIN fs0[FromRoot]

\* The plan compare_trees returns for the trees as they are now.
Replan(order, now) ==
    compare_trees(scan_tree(fs["src"]), scan_tree(fs["dst"]), direction, use_hash,
                  delete_extraneous,
                  IF direction = "bidirectional" THEN store[SOURCE] ELSE <<>>,
                  IF direction = "bidirectional" THEN store[DRIVE] ELSE <<>>,
                  order, now)

ConflictsDone ==
    {i \in 1..Len(plan.conflicts) : Recorded(plan.conflicts[i].rel, "conflict")}

\* C6 as stated: after a conflict was executed, the conflict-renamed file
\* holds the destination's pre-run content and the originally-named
\* destination file holds the source's content.
C6_ConflictRenamesDestination ==
    Done => \A i \in ConflictsDone :
        LET it == plan.conflicts[i]
        IN /\ Lookup(fs, it.dst) # NoFile
           /\ Lookup(fs, it.dst).data = fs0["dst"][it.rel].data
           /\ Lookup(fs, Abs("dst", it.rel)).data = fs0["src"][it.rel].data

\* C6 amended: after a conflict was executed, the conflict-renamed file holds
\* the source's content and the originally-named destination file holds the
\* destination's pre-run content.
C6_ConflictCopyHoldsSource ==
    Done => \A i \in ConflictsDone :
        LET it == plan.conflicts[i]
        IN /\ Lookup(fs, it.dst) # NoFile
           /\ Lookup(fs, it.dst).data = fs0["src"][it.rel].data
           /\ Lookup(fs, Abs("dst", it.rel)) # NoFile
           /\ Lookup(fs, Abs("dst", it.rel)).data = fs0["dst"][it.rel].data

C6_Witness ==
    /\ Completed
    /\ \E i \in ConflictsDone :
          fs0["src"][plan.conflicts[i].rel].data # fs0["dst"][plan.conflicts[i].rel].data

\* C7: at no point of a run does a conflict entry change the file under the
\* destination's original name or the source file.
C7_ConflictLeavesOriginals ==
    \A i \in 1..Len(plan.conflicts) :
        LET rel == plan.conflicts[i].rel
        IN /\ Lookup(fs, Abs("dst", rel)) = Lookup(fs0, Abs("dst", rel))
           /\ Lookup(fs, Abs("src", rel)) = Lookup(fs0, Abs("src", rel))

C7_Witness ==
    /\ Done
    /\ ConflictsDone # {}
    /\ \E i \in ConflictsDone : Lookup(fs, plan.conflicts[i].dst) # NoFile

\* C8: from the moment atomic_copy is entered, through failed attempts and
\* after it returned or raised, the final path holds what it held on entry
\* (nothing, if it did not exist) or the complete copy of the source.
C8_FinalPathNeverPartial ==
    copy_result # "none" =>
        \/ Lookup(fs, pre.dst) = pre.file
        \/ /\ Lookup(fs, pre.src) # NoFile
           /\ Lookup(fs, pre.dst) = Lookup(fs, pre.src)

\* The last attempt, after two failed ones, has written the first of two
\* chunks to the temp file; the final path still holds its old content.
C8_Witness ==
    /\ pc = "chunk"
    /\ attempt = COPY_RETRY_COUNT
    /\ Len(Lookup(fs, tmp_path(pre.dst)).data) = 1
    /\ Len(Lookup(fs, pre.src).data) = 2
    /\ pre.file # NoFile
    /\ Lookup(fs, pre.dst) = pre.file
    /\ pre.file # Lookup(fs, pre.src)

\* C9 as stated: a cancellation signalled while atomic_copy runs ends the copy
\* with the cancellation outcome, the temp file gone and the final path as
\* on entry.
C9_SignalledCopyIsCancelled ==
    (signalled /\ copy_result \in {"ok", "error", "cancelled"}) =>
        /\ copy_result = "cancelled"
        /\ Lookup(fs, tmp_path(pre.dst)) = NoFile
        /\ Lookup(fs, pre.dst) = pre.file

\* C9 amended: when cancel_check answers True inside atomic_copy, the copy ends
\* with the cancellation outcome (the run is cancelled, no error entry is
\* recorded for the file), the temp file is gone and the final path is as on
\* entry.
C9_ObservedCancelCleansUp ==
    copy_result = "cancelled" =>
        /\ cancel_event
        /\ Lookup(fs, tmp_path(pre.dst)) = NoFile
        /\ Lookup(fs, pre.dst) = pre.file
        /\ history.status = "cancelled"
        /\ ~Recorded(pre.dst.name, "error")
        /\ ~Recorded(pre.dst.name, "copy")

\* cancel() arrived while the copy was running and cancel_check saw it; the
\* file did not exist at the destination and still does not.
C9_Witness ==
    /\ copy_result = "cancelled"
    /\ signalled
    /\ pre.file = NoFile
    /\ Lookup(fs, pre.dst) = NoFile

\* ------------------------------------------- claims on the run's outcome
\* The transfers that failed: the error entries of history_entries.
FailedTransfers == {i \in 1..Len(history_entries) : history_entries[i].action = "error"}
Copies == Len(plan.to_copy)
Transfers == Len(plan.to_copy) + Len(plan.conflicts)

C13_SetupFailureIsError ==
    (Done /\ ~makedirs_ok /\ FailedTransfers # {} /\ history.status # "cancelled") =>
        history.status = "error"

\* A copy, conflict, delete or skip of the plan is begun by this step.
UnitBegins ==
    \/ pc = "ops" /\ (pc' = "chunk" \/ (pc' = "ops" /\ idx' = idx + 1))
    \/ pc = "deletes" /\ pc' = "deletes" /\ idx' = idx + 1
    \/ pc = "skips" /\ pc' = "skips" /\ idx' = idx + 1

\* C14: once the event is set during a run, no step of the run begins a unit
\* of the plan (the transfer in flight may go on to its next cancel check or
\* its end), and the step that ends the run gives it the status cancelled.
C14_NoUnitAfterCancel ==
    [][cancel_event => /\ ~UnitBegins
                       /\ pc' = "done" => history'.status = "cancelled"]_vars

\* The event was set while the plan was being executed: the run ended
\* cancelled with some units done and others never begun.
C14_Witness ==
    /\ Done
    /\ cancel_event
    /\ history.status = "cancelled"
    /\ history_entries # <<>>
    /\ Len(history_entries) < Transfers + Len(plan.to_delete)

\* C15: a run entered with the event already set ends in its first step,
\* cancelled, with both trees and the known states as they were.
C15_RunAfterCancelDoesNothing ==
    [][(pc = "start" /\ cancel_event) =>
          /\ pc' = "done"
          /\ history'.status = "cancelled"
          /\ fs' = fs
          /\ store' = store]_vars

\* A run entered with the event set has ended before the destination was
\* scanned, although there was work to do.
C15_Witness ==
    /\ Done
    /\ cancel_event
    /\ history.status = "cancelled"
    /\ snap_dst = <<>>
    /\ fs["dst"] # <<>>
    /\ DOMAIN fs["src"] # DOMAIN fs["dst"]
    /\ fs = fs0

\* C16 as stated: whatever the direction, a run creates, replaces and deletes
\* files under its destination root only: the source tree stays as it was.
C16_WritesUnderDestination == fs["src"] = fs0["src"]

\* C17: a run puts at most one completion event; it has ended exactly when
\* the event was put; the row of a run that has not ended says running, the
\* row of a run that has ended holds one of the three final statuses, the
\* one the event carries.
C17_FinalizedOnce ==
    /\ Len(complete_events) <= 1
    /\ Done <=> Len(complete_events) = 1
    /\ (~Done /\ history # <<>>) => history.status = "running"
    /\ Done => /\ history.status \in {"completed", "cancelled", "error"}
               /\ complete_events = <<history.status>>

\* A run that executed its plan to the end and was finalized as completed.
C17_Witness ==
    /\ Completed
    /\ complete_events = <<"completed">>
    /\ history.files_copied > 0
    /\ db_entries # <<>>

\* C20: attempts are numbered 1..COPY_RETRY_COUNT; between two attempts the
\* temp file is gone; the error is handed to the caller after the last
\* attempt only; a copy that ended cancelled ended the run.
C20_BoundedRetries ==
    /\ attempt \in 0..COPY_RETRY_COUNT
    /\ pc = "sleep" => /\ attempt < COPY_RETRY_COUNT
                       /\ Lookup(fs, Tmp) = NoFile
    /\ (copy_result = "error" /\ attempt > 0) =>
          /\ attempt = COPY_RETRY_COUNT
          /\ Lookup(fs, tmp_path(pre.dst)) = NoFile
    /\ copy_result = "cancelled" => Done

\* Every attempt failed: the error reached _execute_plan after the last one.
C20_Witness ==
    /\ copy_result = "error"
    /\ attempt = COPY_RETRY_COUNT
    /\ pc = "ops"
    /\ history_entries[Len(history_entries)].action = "error"

\* ------------------------------------------------ claims on safe_delete
\* C19 as stated: whatever files the delete loop removes, the sync root and
\* every directory above it stay.
C19_RootNeverRemoved == \A k \in (0 - MaxAbove)..0 : k \in tree_dirs

\* ------------------------------------------------ claims on the manager
Running(w) == workers[w].st = "running"

AllWorkersDone == \A w \in 1..Len(workers) : workers[w].st = "done"

\* C11 as stated: whatever list start() was called with, on_all_done is
\* invoked, once, and not before every worker has ended.
C11_CallbackOnceForEveryCall ==
    /\ [](callbacks <= 1 /\ (callbacks = 1 => AllWorkersDone))
    /\ (mpc # "idle") ~> (callbacks = 1)

\* C11 amended: after a start() with a non-empty list on_all_done is invoked,
\* once, and not before every worker has ended; a start() with an empty list
\* never invokes it.
C11_CallbackOnceAfterWorkers ==
    /\ [](callbacks <= 1 /\ (callbacks = 1 => (mpc = "started" /\ AllWorkersDone)))
    /\ (mpc = "started") ~> (callbacks = 1)
    /\ [](mpc = "returned" => callbacks = 0)

\* The callback was invoked after MAX_DRIVES workers ended, one of them with
\* a run that raised or ended in error, and no cancellation.
C11_Witness ==
    /\ callbacks = 1
    /\ Len(workers) = Min(MaxJobs, MAX_DRIVES)
    /\ \E w \in 1..Len(workers) : workers[w].failed
    /\ ~cancel_event

\* C18: unless cancel() was called, a worker thread ends only after it has
\* run every one of its sources, whatever run of whatever worker ended in
\* error or raised.
C18_FailureStopsNoOtherRun ==
    \A v, w \in 1..Len(workers) :
        (workers[v].failed /\ workers[w].st = "done" /\ ~cancel_event) =>
            workers[w].i = Len(workers[w].sources) + 1

\* The first run of one worker failed; that worker and another one have
\* ended after running all their MaxSources sources.
C18_Witness ==
    /\ ~cancel_event
    /\ Len(workers) >= 2
    /\ AllWorkersDone
    /\ \E v \in 1..Len(workers) : workers[v].failed
    /\ \E w \in 1..Len(workers) : ~workers[w].failed
    /\ \A w \in 1..Len(workers) : workers[w].i = MaxSources + 1

\* C21: is_running is true exactly while a worker thread of start() has not
\* ended; it is false before start() and false from the moment the monitor
\* has joined every future, that is when on_all_done is about to be invoked
\* and ever after.
C21_IsRunningMeansWorkerAlive ==
    /\ is_running <=> ~AllWorkersDone
    /\ mpc = "idle" => ~is_running
    /\ (monitor = Len(futures) + 1 \/ callbacks > 0) => ~is_running

\* The monitor has joined all MAX_DRIVES futures and is about to invoke
\* on_all_done, the executor not yet dropped.
C21_Witness ==
    /\ mpc = "started"
    /\ Len(workers) = MAX_DRIVES
    /\ monitor = Len(futures) + 1
    /\ executor = "live"
    /\ callbacks = 0
    /\ ~is_running

\* C22: a cancel() made when the event is already set changes nothing in the
\* manager.
C22_CancelIdempotent ==
    [][(cancel_event /\ ManagerCancel) => UNCHANGED vars]_vars

\* cancel() was called before start(): no thread exists, the event is set.
C22_Witness ==
    /\ mpc = "idle"
    /\ cancel_event
    /\ workers = <<>>
    /\ jobs # <<>>

DistinctDestinations ==
    \A a, b \in 1..Len(jobs) : (a <= MAX_DRIVES /\ b <= MAX_DRIVES /\ a # b) => jobs[a].dest # jobs[b].dest

Range(seq) == {seq[i] : i \in 1..Len(seq)}

\* The entries of each list of a plan, their order aside.
Entries(p) ==
    [to_copy |-> Range(p.to_copy), to_delete |-> Range(p.to_delete),
     conflicts |-> Range(p.conflicts), to_skip |-> Range(p.to_skip)]

\* Entries with the stamp taken out of the conflict names.
NoStamps(e) ==
    [e EXCEPT !.conflicts = {[it EXCEPT !.dst.name.stamps = <<>>] : it \in @}]

\* The entries of a plan with the stamp taken out of the conflict names.
Unstamped(p) == NoStamps(Entries(p))

\* A second call of compare_trees on the snapshots, known states and options
\* of the state, at the time now.
RefOrder == SelectSeq([p \in 1..MaxPaths |-> Plain(p)], LAMBDA n : n \in AllPaths)
Again(now) ==
    compare_trees(scan_tree(fs["src"]), scan_tree(fs["dst"]),
                  direction, use_hash, delete_extraneous,
                  IF direction = "bidirectional" THEN store[SOURCE] ELSE <<>>,
                  IF direction = "bidirectional" THEN store[DRIVE] ELSE <<>>,
                  RefOrder, now)

\* The times of a second call: those of the first and one later.
LaterClock == 1..(MaxClock + 1)

Differ(rel) ==
    \/ ~SameSize(rel)
    \/ ~SameMtime(rel) /\ (use_hash => fs["src"][rel].data # fs["dst"][rel].data)

\* The entry copying rel from one root to the other.
CopyOf(from, to, rel) ==
    Item(Abs(from, rel), Abs(to, rel), rel, FileStat(fs[from][rel]).size_bytes)

\* The reference rule of a one-way plan.
OneWayRule ==
    [to_copy |-> {CopyOf(FromRoot, ToRoot, rel) : rel \in
                    {r \in DOMAIN fs[FromRoot] : r \notin DOMAIN fs[ToRoot] \/ Differ(r)}},
     to_skip |-> {CopyOf(FromRoot, ToRoot, rel) : rel \in
                    {r \in DOMAIN fs[FromRoot] : r \in DOMAIN fs[ToRoot] /\ ~Differ(r)}},
     to_delete |-> IF delete_extraneous
                   THEN {Abs(ToRoot, rel) : rel \in DOMAIN fs[ToRoot] \ DOMAIN fs[FromRoot]}
                   ELSE {},
     conflicts |-> {}]

NoRepeats(p) ==
    /\ Len(p.to_copy) = Cardinality(Range(p.to_copy))
    /\ Len(p.to_skip) = Cardinality(Range(p.to_skip))
    /\ Len(p.to_delete) = Cardinality(Range(p.to_delete))
    /\ Len(p.conflicts) = Cardinality(Range(p.conflicts))

\* C27: a one-way plan is the reference rule: every path of the from side is
\* a copy if the to side lacks it or holds a different file and a skip
\* otherwise; to_delete is the to-only paths with delete_extraneous and empty
\* without; a pull takes the destination for the from side.
C27_OneWayIsReferenceRule ==
    (ppc = "planned" /\ OneWay) => Entries(plan) = OneWayRule /\ NoRepeats(plan)

\* A pull with a copy, a skip or delete, the copy going from the destination
\* root to the source root.
C27_Witness ==
    /\ ppc = "planned"
    /\ direction = "dest_to_source"
    /\ delete_extraneous
    /\ \E i \in 1..Len(plan.to_copy) :
          plan.to_copy[i].src.root = "dst" /\ plan.to_copy[i].dst.root = "src"
    /\ \E i \in 1..Len(plan.to_delete) : plan.to_delete[i].root = "src"

\* A side has changed when it has no known state or one of another size or
\* modification time.
Changed(serial, stat, rel) ==
    \/ rel \notin DOMAIN store[serial]
    \/ store[serial][rel].size_bytes # stat.size_bytes
    \/ store[serial][rel].mtime_ns # stat.mtime_ns

SrcChanged(rel) == Changed(SOURCE, SrcStat(rel), rel)
DstChanged(rel) == Changed(DRIVE, DstStat(rel), rel)

\* The reference decision table of a bidirectional plan, without the stamp
\* of the conflict names.
BidirectionalTable ==
    LET both == SrcPaths \cap DstPaths
        srcOnly == SrcPaths \ DstPaths
        dstOnly == DstPaths \ SrcPaths
        push == {r \in both : SrcChanged(r) /\ ~DstChanged(r)}
        pull == {r \in both : ~SrcChanged(r) /\ DstChanged(r)}
        calm == {r \in both : ~SrcChanged(r) /\ ~DstChanged(r)}
    IN [conflicts |-> {CopyOf("src", "dst", r) : r \in
                         {q \in both : SrcChanged(q) /\ DstChanged(q)}},
        to_copy |-> {CopyOf("src", "dst", r) : r \in {q \in push : Differ(q)} \cup srcOnly}
                    \cup {CopyOf("dst", "src", r) : r \in {q \in pull : Differ(q)}}
                    \cup (IF delete_extraneous THEN {}
                          ELSE {CopyOf("dst", "src", r) : r \in dstOnly}),
        to_skip |-> {CopyOf("src", "dst", r) : r \in {q \in push : ~Differ(q)} \cup calm}
                    \cup {CopyOf("dst", "src", r) : r \in {q \in pull : ~Differ(q)}},
        to_delete |-> IF delete_extraneous THEN {Abs("dst", r) : r \in dstOnly} ELSE {}]

\* C28: a bidirectional plan is the reference decision table: both sides
\* changed is a conflict; one side changed is a copy from that side if the
\* files differ and a skip if not; no side changed is a skip; a source-only
\* path is a copy to the destination; a destination-only path is a delete
\* with delete_extraneous and a copy back to the source without.
C28_BidirectionalIsDecisionTable ==
    (ppc = "planned" /\ direction = "bidirectional") =>
        Unstamped(plan) = BidirectionalTable /\ NoRepeats(plan)

\* A bidirectional plan in which the destination alone has changed on a path
\* with known states and the file is copied back to the source.
C28_Witness ==
    /\ ppc = "planned"
    /\ direction = "bidirectional"
    /\ \E i \in 1..Len(plan.to_copy) :
          LET it == plan.to_copy[i]
          IN /\ it.src.root = "dst"
             /\ OnBoth(it.rel)
             /\ it.rel \in DOMAIN store[SOURCE]
             /\ ~SrcChanged(it.rel)
             /\ DstChanged(it.rel)
    /\ Len(plan.to_copy) > 1

\* ------------------------------------------ claims on the run, continued
\* Every copy and conflict item has its history entry, in the order of all_ops.
AllTransfersAttempted ==
    /\ Len(history_entries) >= Len(all_ops(plan))
    /\ \A i \in 1..Len(all_ops(plan)) :
          /\ history_entries[i].rel = all_ops(plan)[i].rel
          /\ history_entries[i].action \in {all_ops(plan)[i].action, "error"}

\* Every delete has its history entry, after those of the transfers.
AllDeletesPerformed ==
    /\ Len(history_entries) = Len(all_ops(plan)) + Len(plan.to_delete)
    /\ \A j \in 1..Len(plan.to_delete) :
          history_entries[Len(all_ops(plan)) + j] =
              HistEntry(plan.to_delete[j].name, "delete", 0, "")

DeletePerformed == pc = "deletes" /\ idx' = idx + 1
SkipReported == pc = "skips" /\ idx' = idx + 1
TransferAttempted == pc = "ops" /\ (pc' = "chunk" \/ idx' = idx + 1)

\* C25: within a run a delete is performed only when every copy and conflict
\* item has been attempted, a skip is reported only when moreover every
\* delete has been performed, and no transfer is attempted once a delete is
\* recorded.
C25_CopiesThenDeletesThenSkips ==
    [][/\ DeletePerformed => AllTransfersAttempted
       /\ SkipReported => AllTransfersAttempted /\ AllDeletesPerformed
       /\ TransferAttempted => Len(history_entries) < Len(all_ops(plan))]_vars

\* A run that has attempted its transfers, one of which failed, then performed
\* its deletes, and is at its skip loop.
C25_Witness ==
    /\ pc = "skips"
    /\ Len(all_ops(plan)) > 0
    /\ FailedTransfers # {}
    /\ Len(plan.to_delete) > 0
    /\ AllDeletesPerformed

Executing == {"ops", "chunk", "replace", "sleep", "deletes", "skips"}
TerminalStatus == {"completed", "cancelled", "error"}
Finalized == history # <<>> /\ history.status \in TerminalStatus

\* The plan of the state is the plan of the two snapshots, entry order and
\* conflict stamp aside.
PlanComputed ==
    LET order == CHOOSE o \in Orders(DOMAIN snap_src \cup DOMAIN snap_dst) : TRUE
    IN Unstamped(plan') =
          Unstamped(compare_trees(snap_src, snap_dst, direction, use_hash,
                                  delete_extraneous,
                                  IF direction = "bidirectional" THEN store[SOURCE] ELSE <<>>,
                                  IF direction = "bidirectional" THEN store[DRIVE] ELSE <<>>,
                                  order, 1))

\* C26: a run scans the source, scans the destination, computes the plan and
\* executes it, in that order: no file is written or removed and no history
\* entry made before the plan is computed from the two finished scans, and
\* nothing at all changes once a terminal status is written.
C26_ScanPlanExecuteInOrder ==
    [][/\ pc \in {"start", "scan_dst", "plan"} =>
             fs' = fs /\ history_entries' = history_entries
       /\ (pc' = "scan_dst" /\ pc # "scan_dst") =>
             pc = "start" /\ snap_src' = scan_tree(fs["src"])
       /\ (pc' = "plan" /\ pc # "plan") =>
             pc = "scan_dst" /\ snap_dst' = scan_tree(fs["dst"])
       /\ (pc' \in Executing /\ pc \notin Executing) => pc = "plan" /\ PlanComputed
       /\ Finalized => pc = "done" /\ UNCHANGED <<planVars, engineLocal>>]_vars

\* A completed run that wrote a file and recorded it.
C26_Witness ==
    /\ Finalized
    /\ history.status = "completed"
    /\ fs # fs0
    /\ \E i \in 1..Len(history_entries) : history_entries[i].action = "copy"
    /\ snap_src = scan_tree(fs0["src"])
    /\ snap_dst = scan_tree(fs0["dst"])

\* The rows of the store a step has written or rewritten with another value.
FreshRows(serial) ==
    {rel \in DOMAIN store'[serial] :
        rel \notin DOMAIN store[serial] \/ store'[serial][rel] # store[serial][rel]}

\* C29 as stated: the store is written by bidirectional runs only, only when
\* every item of the plan has been processed, and only at paths whose copy
\* succeeded in the run.
C29_RowsOnlyForSucceededCopies ==
    [][/\ direction # "bidirectional" => store' = store
       /\ store' # store => pc = "skips" /\ loop_done(idx, plan.to_skip)
       /\ \A serial \in Serials : \A rel \in FreshRows(serial) :
             Recorded(rel, "copy")]_vars

\* C30 as stated: when the run has ended, with whatever status, every failed
\* transfer is among the persisted per-file entries as an error.
C30_FailuresPersisted ==
    Done => \A i \in FailedTransfers :
               \E j \in 1..Len(db_entries) : db_entries[j] = history_entries[i]

\* The paths a step of the delete loop removes from the receiving side.
RemovedNow == DOMAIN fs[ToRoot] \ DOMAIN fs'[ToRoot]

\* C23 as stated: every path a run deletes is a path the authoritative side
\* did not hold when it was scanned, whatever errors the scans met.
C23_DeletesOnlyWhatSourceLacks ==
    [][pc = "deletes" => \A rel \in RemovedNow : rel \notin DOMAIN fs0[FromRoot]]_vars

\* The side a to_copy entry writes to has changed since its known state.
TargetChanged(it) ==
    /\ it.rel \in DOMAIN fs[it.dst.root]
    /\ Changed(IF it.dst.root = "src" THEN SOURCE ELSE DRIVE,
               FileStat(fs[it.dst.root][it.rel]), it.rel)

\* C40: in a bidirectional plan every to_copy entry writes to a side whose
\* file is absent or unchanged relative to its known state.
C40_CopyNeverOverwritesChanged ==
    (ppc = "planned" /\ direction = "bidirectional") =>
        \A i \in 1..Len(plan.to_copy) : ~TargetChanged(plan.to_copy[i])

\* A bidirectional plan copying over a file present and unchanged on the
\* receiving side, towards the source for one path and with a conflict
\* beside it or a second copy.
C40_Witness ==
    /\ ppc = "planned"
    /\ direction = "bidirectional"
    /\ \E i \in 1..Len(plan.to_copy) :
          /\ plan.to_copy[i].rel \in DOMAIN fs[plan.to_copy[i].dst.root]
          /\ plan.to_copy[i].dst.root = "src"
    /\ Len(plan.to_copy) + Len(plan.conflicts) > 1

\* The plan of the next run on the trees and the store as they are now.
NextPlanOfRun == Replan(CHOOSE o \in Orders(AllPaths) : TRUE, 1)

\* C36 as stated: after a bidirectional run completed with every transfer
\* succeeding, the plan of the next run has no conflict and no copy entry.
C36_BidirectionalConverges ==
    (Completed /\ direction = "bidirectional" /\ NoTransferFailed) =>
        /\ Len(NextPlanOfRun.conflicts) = 0
        /\ Len(NextPlanOfRun.to_copy) = 0

\* C37 as stated: after a bidirectional run ended cancelled, no file the run
\* had copied is a conflict in the plan of the next run.
C37_CopiedBeforeCancelNoConflict ==
    (Done /\ direction = "bidirectional" /\ history.status = "cancelled") =>
        \A i \in 1..Len(history_entries) :
            history_entries[i].action = "copy" =>
                InList(NextPlanOfRun.conflicts, history_entries[i].rel) = {}

\* C33: a run that has created its history row in running status eventually
\* writes a terminal status, whatever transfers fail and whenever cancel()
\* is called, the run's thread being scheduled fairly.
C33_StartedRunFinalizes ==
    (history # <<>> /\ history.status = "running") ~> Finalized

\* A run finalized after a transfer failed on every attempt and cancel() came
\* during a later transfer.
C33_Witness ==
    /\ Finalized
    /\ FailedTransfers # {}
    /\ attempt = COPY_RETRY_COUNT
    /\ signalled

\* C39 as stated: a run that is about to compute its plan holds two complete
\* snapshots, also when start() is called again during the run.
C39_PlansFromCompleteScans ==
    pc = "plan" =>
        /\ snap_src = scan_tree(fs["src"])
        /\ snap_dst = scan_tree(fs["dst"])

\* The persisted history holds a copy of rel.
CopiedEarlier(rel) ==
    \E j \in 1..Len(db_entries) :
        db_entries[j].rel = rel /\ db_entries[j].action = "copy"

\* C38 as stated: the run of a later source root of a job removes from the
\* destination no file that the run of an earlier source root copied there.
C38_LaterSourceKeepsEarlierCopies ==
    [][(pc = "deletes" /\ "earlier_src" \in DOMAIN fs) =>
          \A rel \in DOMAIN fs["dst"] \ DOMAIN fs'["dst"] : ~CopiedEarlier(rel)]_vars

\* The run of the second drive has its plan and has executed nothing yet.
SecondDrivePlanned ==
    /\ "earlier_dst" \in DOMAIN fs
    /\ pc = "ops"
    /\ idx = 1
    /\ history_entries = <<>>

\* C35 as stated: the plan of the second drive's run copies every file that
\* differs between the source and the drive and that the drive has not
\* changed since its known state, whatever rows the first drive's run wrote.
C35_OtherDriveStillGetsCopy ==
    (SecondDrivePlanned /\ direction = "bidirectional") =>
        \A rel \in SrcPaths \cap DstPaths :
            (~DstChanged(rel) /\ Differ(rel)) => InList(plan.to_copy, rel) # {}

\* The events of the drive under study among seq.
Mine(seq) == SelectSeq(seq, LAMBDA e : e.drive = DRIVE)

ProgressEvents == SelectSeq(emitted, LAMBDA e : e.type = "progress")

\* C31 as stated: every ProgressEvent has files_done <= files_total and
\* bytes_done <= bytes_total, and within a run neither running total ever
\* decreases, retries after a partial write included.
C31_ProgressWithinTotals ==
    Traced =>
        /\ \A i \in 1..Len(ProgressEvents) :
              /\ ProgressEvents[i].files_done <= ProgressEvents[i].files_total
              /\ ProgressEvents[i].bytes_done <= ProgressEvents[i].bytes_total
        /\ \A i, j \in 1..Len(ProgressEvents) :
              (i < j /\ ProgressEvents[i].run = ProgressEvents[j].run) =>
                  /\ ProgressEvents[i].files_done <= ProgressEvents[j].files_done
                  /\ ProgressEvents[i].bytes_done <= ProgressEvents[j].bytes_done

\* C34: what the UI thread has received of a job and what is still queued
\* are together the events the job has put, each once and in the order of the
\* puts; and the UI thread receives the completion event of a source root
\* after all progress and file-action events of that root and before any of
\* the next root of the same destination.
C34_EventsOnceInOrder ==
    Traced =>
        /\ Mine(received) \o Mine(event_queue) = emitted
        /\ LET got == Mine(received)
           IN \A i \in 1..Len(got) :
                 got[i].type = "complete" =>
                     \A j \in 1..Len(got) :
                         got[j].type \in {"progress", "file"} =>
                             (i < j <=> got[j].run > got[i].run)
        /\ Len(SelectSeq(emitted, LAMBDA e : e.type = "complete")) = Len(complete_events)

\* Both source roots are through, each has had a file event, an event of
\* another drive came in between and the UI thread has drained everything.
C34_Witness ==
    /\ Traced
    /\ pc = "done"
    /\ RunNo = 2
    /\ event_queue = <<>>
    /\ Len(complete_events) = 2
    /\ \E i, j, k \in 1..Len(received) :
          /\ i < k /\ k < j
          /\ received[i].type = "file" /\ received[i].drive = DRIVE /\ received[i].run = 1
          /\ received[k].drive = OTHER_DRIVE
          /\ received[j].type = "file" /\ received[j].drive = DRIVE /\ received[j].run = 2

\* A link of the tree walked leads back to a directory on its own path.
Cyclic ==
    \/ \E d \in visited : d \in links[d]
    \/ \E d, e \in visited : d # e /\ e \in links[d] /\ d \in links[e]

\* C32: on every graph of directories and links, cycles included, the worker
\* lists each real directory at most once and its walk ends.
C32_WalkEndsEachDirectoryOnce ==
    /\ [](wpc # "idle" => \A d \in Dirs : expanded[d] <= 1)
    /\ <>(wpc = "ended")

\* A walk that was not cancelled has ended after listing every directory of
\* a graph with a cycle.
C32_Witness ==
    /\ wpc = "ended"
    /\ ~cancel_event
    /\ visited = Dirs
    /\ Cyclic
    /\ \A d \in Dirs : expanded[d] = 1

====
